---- MODULE Spec2Model ----
(***************************************************************************)
(* A model of the TinyEdgeLLMAgents agent runtime: the tool dispatcher     *)
(* (agent/src/dispatcher.rs), the plan parser (agent/src/planner.rs), the  *)
(* agent memory (agent/src/memory.rs) and the agent that owns the three    *)
(* (agent/src/lib.rs).                                                     *)
(*                                                                         *)
(* Strings whose characters the code inspects (tool names: contains,       *)
(* ends_with) are sequences of one-character strings.  Messages built      *)
(* with format! are tuples of their parts.  Option<T> is NoneV / Some(x).  *)
(***************************************************************************)
EXTENDS Integers, Sequences, FiniteSets, TLC

VARIABLES
    \* ---- ToolDispatcher (dispatcher.rs:176-179) and one execute_plan call
    tools,            \* keys of ToolDispatcher.tools, in the map's iteration order
    default_timeout,  \* ToolDispatcher.default_timeout, in seconds
    plan,             \* the ExecutionPlan passed to execute_plan
    pc,               \* position of execute_plan: idle, running, returned_ok, returned_err, panicked
    queue,            \* the actions in the order execute_plan walks them
    fut,              \* one execute_action future per entry of queue
    nproc,            \* the native subprocess of each future
    wproc,            \* the wasmtime subprocess of each future
    results,          \* the Vec<ToolResult> execute_plan builds / returns
    plan_error,       \* the error execute_plan returned, if any
    now,              \* the clock (Instant::now), in seconds
    \* ---- Planner (planner.rs:75-78) and one parse_llm_response call
    available_tools,  \* keys of Planner.available_tools
    response,         \* the text given to parse_llm_response
    parse_pc,         \* the planner call made last: ready (none), parsed, validated
    parse_out,        \* what parse_llm_response returned, and the tiers it ran
    checked,          \* the action given to validate_action, and what it returned
    \* ---- AgentMemory (memory.rs:33-38)
    conversation_history,  \* AgentMemory.conversation_history
    max_history_size,      \* AgentMemory.max_history_size
    session_data,          \* AgentMemory.session_data
    tool_results_cache,    \* AgentMemory.tool_results_cache
    added,            \* the messages add_to_history was called with, in call order
    last_call,        \* the call made last, and what it returned
    calls,            \* the calls made on the session store, in call order
    \* ---- TinyEdgeAgent (lib.rs:32-38) and one execute_task call
    model_loaded,     \* TinyEdgeAgent.model_loaded
    task              \* position of execute_task, and what it returned

dvars == <<tools, default_timeout, plan, pc, queue, fut, nproc, wproc, results, plan_error, now>>
pvars == <<available_tools, response, parse_pc, parse_out, checked>>
mvars == <<conversation_history, max_history_size, session_data, tool_results_cache, added,
          last_call, calls>>
avars == <<model_loaded, task>>
vars == <<dvars, pvars, mvars, avars>>

----------------------------------------------------------------------------
(* Bounds of the model *)

\* longest plan handed to execute_plan
MaxActions == 2
\* last instant of the clock
MaxTime == 2
\* largest timeout (seconds) set_timeout is called with or a plan carries
MaxTimeout == 1

----------------------------------------------------------------------------
(* Option and strings *)

NoneV == [some |-> FALSE]
Some(x) == [some |-> TRUE, v |-> x]

\* HashMap<String, String>: a function from its keys to their values
EmptyMap == [k \in {} |-> <<>>]

HashMap_insert(map, key, value) ==
    [k \in DOMAIN map \cup {key} |-> IF k = key THEN value ELSE map[k]]

HashMap_get(map, key) == IF key \in DOMAIN map THEN Some(map[key]) ELSE NoneV

HashMap_remove(map, key) == [k \in DOMAIN map \ {key} |-> map[k]]

\* the orders a HashMap may be iterated in
HashMap_iter(map) ==
    {o \in [1..Cardinality(DOMAIN map) -> DOMAIN map] :
        \A i, j \in 1..Cardinality(DOMAIN map) : o[i] = o[j] => i = j}

Range(s) == {s[i] : i \in 1..Len(s)}

\* str::contains
Contains(s, pat) ==
    \E i \in 0..(Len(s) - Len(pat)) : SubSeq(s, i + 1, i + Len(pat)) = pat

\* str::ends_with
EndsWith(s, suf) ==
    /\ Len(s) >= Len(suf)
    /\ SubSeq(s, Len(s) - Len(suf) + 1, Len(s)) = suf

\* Iterator::find over a key sequence: the first key that is one of
\* those the closure accepts
Find(keys, accepted) ==
    LET hits == {i \in 1..Len(keys) : keys[i] \in accepted}
    IN  IF hits = {} THEN NoneV
        ELSE Some(keys[CHOOSE i \in hits : \A j \in hits : i <= j])

S_math == <<"m", "a", "t", "h">>
S_fetch == <<"f", "e", "t", "c", "h">>
S_shell == <<"s", "h", "e", "l", "l">>
S_native == <<"-", "n", "a", "t", "i", "v", "e">>
S_math_native == S_math \o S_native
S_calc == <<"c", "a", "l", "c">>
S_nope == <<"n", "o", "p", "e">>
S_unknown == <<"u", "n", "k", "n", "o", "w", "n">>

----------------------------------------------------------------------------
(* ToolResult *)

ToolResult_success(tool_name, result, execution_time) ==
    [success |-> TRUE, result |-> result, error |-> NoneV,
     execution_time_ms |-> execution_time, tool_name |-> tool_name]

ToolResult_error(tool_name, error, execution_time) ==
    [success |-> FALSE, result |-> <<>>, error |-> Some(error),
     execution_time_ms |-> execution_time, tool_name |-> tool_name]

----------------------------------------------------------------------------
(* Inputs: the tools that get registered, the plans that get executed,     *)
(* and what a tool process may do.                                         *)

\* names register_tool is called with
RegNames == {S_math_native, S_calc}

\* ActionPlan::new(tool, args).with_priority(p), planner.rs:22-45
ActionPlan_new(tool, args) ==
    [tool |-> tool, args |-> args, context |-> NoneV, reasoning |-> NoneV,
     priority |-> 5]

\* ActionPlan::with_priority, planner.rs:42-45
with_priority(action, priority) ==
    [action EXCEPT !.priority = IF priority < 1 THEN 1
                                ELSE IF priority > 10 THEN 10
                                ELSE priority]

\* actions of the Sequential and Parallel plans: an alias or an
\* unregistered name, with or without arguments
PlainChoices ==
    {ActionPlan_new(t, a) : t \in {S_math, S_nope}, a \in {<<>>, <<"op">>}}

\* actions of the Priority plans: two tools at one priority, told apart
\* by their tool, and one action at a higher priority
RankedChoices ==
    {with_priority(ActionPlan_new(t, <<"op">>), 3) : t \in {S_math, S_calc}}
        \cup {with_priority(ActionPlan_new(S_math, <<"op">>), 9)}

SeqsUpTo(S, n) == UNION {[1..k -> S] : k \in 0..n}

\* standard output of a tool process: the text and what
\* serde_json::from_str::<Value> makes of it (json = NoneV: not JSON;
\* otherwise the value of its "result" member, if it has one)
Stdouts ==
    { [raw |-> <<"{", "r", "}">>, json |-> Some([result |-> Some(<<"4">>)])],
      [raw |-> <<" ">>, json |-> NoneV] }

\* how a process ends: exit status and standard output
ExitOutcomes ==
    {[code |-> 0, stdout |-> o] : o \in Stdouts}
        \cup {[code |-> 1, stdout |-> [raw |-> <<>>, json |-> NoneV]]}

\* char::is_whitespace, and \s of the regex crate
Spaces == {" ", "\t", "\n", "\r"}

\* str::trim
RECURSIVE TrimStart(_)
TrimStart(s) ==
    IF s # <<>> /\ Head(s) \in Spaces THEN TrimStart(Tail(s)) ELSE s

RECURSIVE TrimEnd(_)
TrimEnd(s) ==
    IF s # <<>> /\ s[Len(s)] \in Spaces THEN TrimEnd(SubSeq(s, 1, Len(s) - 1)) ELSE s

Trim(s) == TrimEnd(TrimStart(s))

\* Duration::as_millis of a duration in seconds
as_millis(d) == 1000 * d

----------------------------------------------------------------------------
(* ToolDispatcher: registry and alias resolution *)

contains_key(keys, k) == k \in Range(keys)

\* HashMap::insert of a key: an existing key keeps the map as it is (the
\* value is replaced), a new key lands anywhere in the iteration order
KeyOrdersAfterInsert(keys, k) ==
    IF contains_key(keys, k) THEN {keys}
    ELSE {SubSeq(keys, 1, i) \o <<k>> \o SubSeq(keys, i + 1, Len(keys)) :
            i \in 0..Len(keys)}

\* the alias arm taking the first key that contains the alias, native or
\* not
AliasArm_first_containing(keys, alias) ==
    LET any == Find(keys, {k \in Range(keys) : Contains(k, alias)})
    IN  IF any.some THEN any.v ELSE alias

\* map_tool_alias, one alias arm
AliasArm(keys, alias) ==
    LET native == Find(keys, {k \in Range(keys) :
                                EndsWith(k, S_native) /\ Contains(k, alias)})
        any == Find(keys, {k \in Range(keys) : Contains(k, alias)})
    IN  IF native.some THEN native.v
        ELSE IF any.some THEN any.v
        ELSE alias

\* map_tool_alias without the look-up of the name itself
map_tool_alias_arm_first(keys, tool_name) ==
    IF tool_name \in {S_math, S_fetch, S_shell} THEN AliasArm(keys, tool_name)
    ELSE tool_name

map_tool_alias(keys, tool_name) ==
    IF contains_key(keys, tool_name) THEN tool_name
    ELSE IF tool_name \in {S_math, S_fetch, S_shell} THEN AliasArm(keys, tool_name)
    ELSE tool_name

----------------------------------------------------------------------------
(* ToolDispatcher::execute_action, as the future it is: first polled by    *)
(* Launch, suspended at the native child's wait_with_output().await        *)
(* (st = "native_wait"), or holding the thread in the blocking             *)
(* std::process wait of execute_wasm_tool (st = "wasm_blocked").           *)

\* the anyhow errors of the dispatcher, Display-formatted
UnknownToolError(actual, tool) ==
    <<"Unknown tool: ", actual, " (mapped from ", tool, ")">>

ExecuteFailedError(name) ==
    <<"Tool execution failed for ", name,
      ": neither native nor WASM execution succeeded">>

TimeoutError == <<"Tool execution timeout">>

\* Result<T>
Ok(x) == [ok |-> TRUE, value |-> x]
Err(e) == [ok |-> FALSE, error |-> e]

\* the input envelope, dispatcher.rs:307-321
tool_input(action) ==
    IF Len(action.args) = 1
    THEN [operation |-> action.args[1], args |-> <<>>, context |-> action.context]
    ELSE [operation |-> IF Len(action.args) > 0 THEN action.args[1] ELSE "default",
          args |-> SubSeq(action.args, 2, Len(action.args)),
          context |-> action.context]

\* &action.args[1..] on an empty Vec: the slice start is past the end
tool_input_panics(action) ==
    Len(action.args) # 1 /\ Len(action.args) < 1

\* serde_json::Value::to_string of a JSON string
ValueToString(v) == <<"\"">> \o v \o <<"\"">>

\* the Ok(Ok(output)) arm, dispatcher.rs:331-345
OutputResult(actual, output, execution_time) ==
    IF output.json.some /\ output.json.v.result.some
    THEN ToolResult_success(actual, ValueToString(output.json.v.result.v),
                            as_millis(execution_time))
    ELSE ToolResult_success(actual, Trim(output.raw), as_millis(execution_time))

\* the timeout execute_action runs the tool under, dispatcher.rs:326
AppliedTimeout == default_timeout

NewFuture ==
    [st |-> "new", start |-> 0, deadline |-> 0, tool_name |-> <<>>,
     input |-> NoneV, out |-> NoneV]

NoProc == [st |-> "none", outcome |-> NoneV]

Slots == 1..Len(queue)

\* the thread that polls execute_plan is not inside a blocking wait
ThreadFree == \A j \in Slots : fut[j].st # "wasm_blocked"

\* a sort that compares a with b instead of b with a: ascending priority
RECURSIVE InsertAscending(_, _)
InsertAscending(sorted, a) ==
    IF sorted = <<>> THEN <<a>>
    ELSE IF Head(sorted).priority > a.priority THEN <<a>> \o sorted
    ELSE <<Head(sorted)>> \o InsertAscending(Tail(sorted), a)

RECURSIVE sort_ascending(_)
sort_ascending(actions) ==
    IF actions = <<>> THEN <<>>
    ELSE InsertAscending(sort_ascending(SubSeq(actions, 1, Len(actions) - 1)),
                         actions[Len(actions)])

\* Ordering by priority, dispatcher.rs:390-391: slice::sort_by is stable
RECURSIVE InsertByPriority(_, _)
InsertByPriority(sorted, a) ==
    IF sorted = <<>> THEN <<a>>
    ELSE IF Head(sorted).priority < a.priority THEN <<a>> \o sorted
    ELSE <<Head(sorted)>> \o InsertByPriority(Tail(sorted), a)

RECURSIVE sort_by_priority(_)
sort_by_priority(actions) ==
    IF actions = <<>> THEN <<>>
    ELSE InsertByPriority(sort_by_priority(SubSeq(actions, 1, Len(actions) - 1)),
                          actions[Len(actions)])

\* the Err arm of the Parallel collection loop, dispatcher.rs:381-384
SyntheticError(e) == ToolResult_error(S_unknown, e, as_millis(0))

\* what execute_plan does with the outcome `out` of future i (g: the
\* futures as the poll leaves them): the future's locals are dropped, then
\* `?` and push in the Sequential and Priority loops, the ordered join and
\* the collection loop for Parallel
Complete(g, i, out) ==
    LET f == [g EXCEPT ![i] = [NewFuture EXCEPT !.st = "ready", !.out = Some(out)]]
    IN  /\ fut' = f
        /\ IF plan.execution_strategy = "Parallel"
           THEN IF \A j \in Slots : f[j].st = "ready"
                THEN /\ results' = [j \in Slots |->
                                      IF f[j].out.v.ok THEN f[j].out.v.value
                                      ELSE SyntheticError(f[j].out.v.error)]
                     /\ pc' = "returned_ok"
                     /\ plan_error' = plan_error
                ELSE UNCHANGED <<results, pc, plan_error>>
           ELSE IF out.ok
                THEN /\ results' = Append(results, out.value)
                     /\ pc' = IF i = Len(queue) THEN "returned_ok" ELSE "running"
                     /\ plan_error' = plan_error
                ELSE /\ pc' = "returned_err"
                     /\ plan_error' = Some(out.error)
                     /\ UNCHANGED results

\* a child process handle is dropped: a child that has exited is reaped
\* and gone, a child still running keeps running (the Command is built
\* without kill_on_drop, dispatcher.rs:151-155)
DropChild(proc) == IF proc.st = "running" THEN proc ELSE NoProc

\* WasmTool::execute after the native attempt returned Err: the wasmtime
\* subprocess is spawned and waited for on the calling thread
WasmAttempt(i, f) ==
    \E w \in {"spawn_failed", "started"} :
        IF w = "started"
        THEN /\ fut' = [f EXCEPT ![i].st = "wasm_blocked"]
             /\ wproc' = [wproc EXCEPT ![i] = [st |-> "running", outcome |-> NoneV]]
             /\ UNCHANGED <<nproc, results, pc, plan_error>>
        ELSE /\ wproc' = wproc
             /\ nproc' = [nproc EXCEPT ![i] = DropChild(@)]
             /\ Complete(f, i, Ok(ToolResult_error(f[i].tool_name,
                                     ExecuteFailedError(f[i].tool_name),
                                     as_millis(now - f[i].start))))

----------------------------------------------------------------------------
(* The dispatcher's operations *)

\* ToolDispatcher::register_tool, dispatcher.rs:269-294
RegisterTool(name) ==
    /\ pc = "idle"
    /\ tools' \in KeyOrdersAfterInsert(tools, name)
    /\ UNCHANGED <<default_timeout, plan, pc, queue, fut, nproc, wproc, results,
                   plan_error, now, pvars, mvars, avars>>

\* ToolDispatcher::set_timeout, dispatcher.rs:189-191
SetTimeout(t) ==
    /\ pc = "idle"
    /\ default_timeout' = t
    /\ UNCHANGED <<tools, plan, pc, queue, fut, nproc, wproc, results,
                   plan_error, now, pvars, mvars, avars>>
\* ToolDispatcher::execute_plan up to its first await, with the Priority
\* arm sorting the actions of the plan itself instead of a clone of them
StartPlan_sorted_in_place(p) ==
    /\ pc = "idle"
    /\ plan' = IF p.execution_strategy = "Priority"
               THEN [p EXCEPT !.actions = sort_by_priority(p.actions)]
               ELSE p
    /\ queue' = IF p.execution_strategy = "Priority"
                THEN sort_by_priority(p.actions)
                ELSE p.actions
    /\ fut' = [i \in 1..Len(p.actions) |-> NewFuture]
    /\ nproc' = [i \in 1..Len(p.actions) |-> NoProc]
    /\ wproc' = [i \in 1..Len(p.actions) |-> NoProc]
    /\ results' = <<>>
    /\ pc' = IF p.actions = <<>> THEN "returned_ok" ELSE "running"
    /\ last_call' = [op |-> "execute_plan", plan |-> p]
    /\ UNCHANGED <<tools, default_timeout, plan_error, now, pvars,
                   conversation_history, max_history_size, session_data,
                   tool_results_cache, added, calls, avars>>


\* execute_plan is called: the futures of its actions exist, none polled
StartPlan(p) ==
    /\ pc = "idle"
    /\ plan' = p
    /\ queue' = IF p.execution_strategy = "Priority"
                THEN sort_by_priority(p.actions)
                ELSE p.actions
    /\ fut' = [i \in 1..Len(p.actions) |-> NewFuture]
    /\ nproc' = [i \in 1..Len(p.actions) |-> NoProc]
    /\ wproc' = [i \in 1..Len(p.actions) |-> NoProc]
    /\ results' = <<>>
    /\ pc' = IF p.actions = <<>> THEN "returned_ok" ELSE "running"
    /\ last_call' = [op |-> "execute_plan", plan |-> p]
    /\ UNCHANGED <<tools, default_timeout, plan_error, now, pvars,
                   conversation_history, max_history_size, session_data,
                   tool_results_cache, added, calls, avars>>

\* whose turn it is to be polled for the first time
MayLaunch(i) ==
    /\ fut[i].st = "new"
    /\ IF plan.execution_strategy = "Parallel"
       THEN \A j \in 1..(i - 1) : fut[j].st # "new"
       ELSE i = Len(results) + 1

\* first poll of execute_action(queue[i]): dispatcher.rs:297-326 and the
\* native attempt of WasmTool::execute up to its first suspension
Launch(i) ==
    /\ pc = "running"
    /\ ThreadFree
    /\ MayLaunch(i)
    /\ LET action == queue[i]
           actual == map_tool_alias(tools, action.tool)
           f == [fut EXCEPT ![i].start = now, ![i].tool_name = actual]
       IN  IF ~contains_key(tools, actual)
           THEN /\ Complete(f, i, Err(UnknownToolError(actual, action.tool)))
                /\ UNCHANGED <<nproc, wproc>>
           ELSE IF tool_input_panics(action)
           THEN /\ pc' = "panicked"
                /\ fut' = f
                /\ UNCHANGED <<nproc, wproc, results, plan_error>>
           ELSE LET g == [f EXCEPT ![i].input = Some(tool_input(action)),
                                   ![i].deadline = now + AppliedTimeout]
                IN  \E native \in {"not_found", "spawn_failed", "started"} :
                        IF native = "started"
                        THEN /\ fut' = [g EXCEPT ![i].st = "native_wait"]
                             /\ nproc' = [nproc EXCEPT ![i] =
                                            [st |-> "running", outcome |-> NoneV]]
                             /\ UNCHANGED <<wproc, results, pc, plan_error>>
                        ELSE WasmAttempt(i, g)
    /\ UNCHANGED <<tools, default_timeout, plan, queue, now, pvars, mvars, avars>>

\* a native child process exits; a child nobody waits for any more is
\* reaped by the runtime and its status and output are lost
ChildExit(i) ==
    /\ pc # "idle"
    /\ nproc[i].st = "running"
    /\ IF fut[i].st = "native_wait"
       THEN \E o \in ExitOutcomes :
              nproc' = [nproc EXCEPT ![i] = [st |-> "exited", outcome |-> Some(o)]]
       ELSE nproc' = [nproc EXCEPT ![i] = NoProc]
    /\ UNCHANGED <<tools, default_timeout, plan, pc, queue, fut, wproc, results,
                   plan_error, now, pvars, mvars, avars>>

\* the future is woken: its child has exited or its deadline has passed
Woken(i) ==
    /\ fut[i].st = "native_wait"
    /\ (nproc[i].st = "exited" \/ now >= fut[i].deadline)

\* a later poll of execute_action(queue[i]): tokio's Timeout polls the
\* tool future first and the timer second, dispatcher.rs:326-352 with
\* execute_native_tool's 165-172 and execute's fall-through 76-85
PollNative(i) ==
    /\ pc = "running"
    /\ ThreadFree
    /\ Woken(i)
    /\ IF nproc[i].st = "exited"
       THEN LET o == nproc[i].outcome.v
            IN  IF o.code = 0
                THEN /\ Complete(fut, i, Ok(OutputResult(fut[i].tool_name, o.stdout,
                                                           now - fut[i].start)))
                     /\ nproc' = [nproc EXCEPT ![i] = DropChild(@)]
                     /\ UNCHANGED wproc
                ELSE WasmAttempt(i, fut)
       ELSE /\ Complete(fut, i, Ok(ToolResult_error(fut[i].tool_name, TimeoutError,
                                                     as_millis(now - fut[i].start))))
            /\ nproc' = [nproc EXCEPT ![i] = DropChild(@)]
            /\ UNCHANGED wproc
    /\ UNCHANGED <<tools, default_timeout, plan, queue, now, pvars, mvars, avars>>

\* the wasmtime child exits and the blocking wait_with_output returns,
\* dispatcher.rs:112-125; the future completes inside the same poll
WasmReturn(i) ==
    /\ pc = "running"
    /\ fut[i].st = "wasm_blocked"
    /\ \E o \in ExitOutcomes :
         IF o.code = 0 /\ Trim(o.stdout.raw) # <<>>
         THEN Complete(fut, i,
                  Ok(OutputResult(fut[i].tool_name,
                                  [o.stdout EXCEPT !.raw = Trim(o.stdout.raw)],
                                  now - fut[i].start)))
         ELSE Complete(fut, i,
                  Ok(ToolResult_error(fut[i].tool_name,
                                      ExecuteFailedError(fut[i].tool_name),
                                      as_millis(now - fut[i].start))))
    /\ wproc' = [wproc EXCEPT ![i] = NoProc]
    /\ nproc' = [nproc EXCEPT ![i] = DropChild(@)]
    /\ UNCHANGED <<tools, default_timeout, plan, queue, now, pvars, mvars, avars>>

\* time passes: while the polling thread is free, a future that can be
\* polled is polled before the clock moves on
Tick ==
    /\ pc = "running"
    /\ now < MaxTime
    /\ ThreadFree => \A i \in Slots : ~MayLaunch(i) /\ ~Woken(i)
    /\ now' = now + 1
    /\ UNCHANGED <<tools, default_timeout, plan, pc, queue, fut, nproc, wproc,
                   results, plan_error, pvars, mvars, avars>>

----------------------------------------------------------------------------
(* Specification of the dispatcher *)

\* ToolDispatcher::new, dispatcher.rs:182-187
DefaultTimeoutSecs == 30

\* AgentMemory::new, memory.rs:41-48
DefaultMaxHistorySize == 50

NoPlan == [actions |-> <<>>, execution_strategy |-> "Sequential", timeout_seconds |-> 0]

PlansOf(strategies, choices, timeouts) ==
    {[actions |-> a, execution_strategy |-> s, timeout_seconds |-> t] :
        a \in SeqsUpTo(choices, MaxActions), s \in strategies,
        t \in timeouts}

PlainPlans == PlansOf({"Sequential", "Parallel"}, PlainChoices, 1..MaxTimeout)

\* Planner::new, planner.rs:89-94
PlannerDefaultTimeout == 30

\* the Priority plans carry the timeout the planner gives its plans
RankedPlans == PlansOf({"Priority"}, RankedChoices, {PlannerDefaultTimeout})

DInit ==
    /\ tools = <<>>
    /\ default_timeout = DefaultTimeoutSecs
    /\ plan = NoPlan
    /\ pc = "idle"
    /\ queue = <<>>
    /\ fut = <<>>
    /\ nproc = <<>>
    /\ wproc = <<>>
    /\ results = <<>>
    /\ plan_error = NoneV
    /\ now = 0
    /\ available_tools = {}
    /\ response = NoneV
    /\ parse_pc = "ready"
    /\ parse_out = NoneV
    /\ checked = NoneV
    /\ conversation_history = <<>>
    /\ max_history_size = DefaultMaxHistorySize
    /\ session_data = EmptyMap
    /\ tool_results_cache = EmptyMap
    /\ added = <<>>
    /\ last_call = [op |-> "new"]
    /\ calls = <<>>
    /\ model_loaded = FALSE
    /\ task = [st |-> "none"]

\* the dispatcher is set up: tools registered, the timeout set
DSetup ==
    \/ \E name \in RegNames : RegisterTool(name)
    \/ \E t \in 1..MaxTimeout : SetTimeout(t)

\* a plan under execution advances
DRun ==
    \/ \E i \in Slots : Launch(i)
    \/ \E i \in Slots : ChildExit(i)
    \/ \E i \in Slots : PollNative(i)
    \/ \E i \in Slots : WasmReturn(i)
    \/ Tick

DNext ==
    \/ DSetup
    \/ \E p \in PlainPlans \cup RankedPlans : StartPlan(p)
    \/ DRun

SpecDispatch == DInit /\ [][DNext]_vars

\* the dispatcher executing Priority plans only
PNext ==
    \/ DSetup
    \/ \E p \in RankedPlans : StartPlan(p)
    \/ DRun

SpecPriority == DInit /\ [][PNext]_vars

----------------------------------------------------------------------------
(* Claims about the dispatcher *)

Returned == pc \in {"returned_ok", "returned_err", "panicked"}

Resolves(action) == contains_key(tools, map_tool_alias(tools, action.tool))

IsTimeoutResult(r) == ~r.success /\ r.error = Some(TimeoutError)

\* every ToolResult execute_action has produced in this call
ProducedResults ==
    {results[k] : k \in 1..Len(results)}
        \cup {fut[i].out.v.value : i \in {j \in Slots : fut[j].st = "ready" /\ fut[j].out.v.ok}}

\* C1: under Sequential, whatever the outcome of an action, execute_plan
\* returns a list with exactly one result per action, in list order.
C1_SequentialOneResultPerAction ==
    (plan.execution_strategy = "Sequential" /\ Returned) =>
        /\ pc = "returned_ok"
        /\ Len(results) = Len(plan.actions)
        /\ \A k \in 1..Len(results) :
             results[k].tool_name = map_tool_alias(tools, plan.actions[k].tool)

\* C2: under Parallel, execute_plan always returns as many results as the
\* plan has actions, result i being that of action i: a synthetic error
\* tagged "unknown" for an action whose call errored, the action's own
\* ToolResult otherwise.
C2_ParallelOneResultPerAction ==
    (plan.execution_strategy = "Parallel" /\ Returned) =>
        /\ pc = "returned_ok"
        /\ Len(results) = Len(plan.actions)
        /\ \A k \in 1..Len(results) :
             IF Resolves(plan.actions[k])
             THEN results[k].tool_name = map_tool_alias(tools, plan.actions[k].tool)
             ELSE /\ results[k].tool_name = S_unknown
                  /\ ~results[k].success

\* the actions of priority p, in the order they have in a list
OfPriority(actions, p) == SelectSeq(actions, LAMBDA a : a.priority = p)

\* C3: under Priority the actions are executed one at a time in order of
\* descending priority, actions of equal priority in their original
\* relative order, and the results are in that execution order.
C3_PriorityOrder ==
    (plan.execution_strategy = "Priority" /\ pc # "idle") =>
        /\ Len(queue) = Len(plan.actions)
        /\ \A i, j \in Slots : i < j => queue[i].priority >= queue[j].priority
        /\ \A p \in 1..10 : OfPriority(queue, p) = OfPriority(plan.actions, p)
        /\ \A i, j \in Slots : (i < j /\ fut[j].st # "new") => fut[i].st = "ready"
        /\ Len(results) <= Len(queue)
        /\ \A k \in 1..Len(results) :
             /\ fut[k].out = Some(Ok(results[k]))
             /\ results[k].tool_name = map_tool_alias(tools, queue[k].tool)
        /\ pc = "returned_ok" => Len(results) = Len(queue)

\* C3 witness: priorities [3, 9] on two different tools ran as [9, 3]
C3_Witness ==
    /\ pc = "returned_ok"
    /\ plan.execution_strategy = "Priority"
    /\ Len(plan.actions) = 2
    /\ plan.actions[1].priority = 3 /\ plan.actions[1].tool = S_calc
    /\ plan.actions[2].priority = 9 /\ plan.actions[2].tool = S_math
    /\ Len(results) = 2
    /\ results[1].tool_name = S_math_native
    /\ results[2].tool_name = S_calc

\* C4: a tool invocation still running when the configured deadline
\* elapses never ends in a success result, and a "Tool execution timeout"
\* result reports at least the configured timeout.
C4_NoSuccessAfterDeadline ==
    \A r \in ProducedResults :
        /\ r.execution_time_ms > as_millis(default_timeout) => ~r.success
        /\ IsTimeoutResult(r) => r.execution_time_ms >= as_millis(default_timeout)

\* C5: once the timeout result of an action has been returned, the
\* action's tool subprocess is no longer running.
C5_TimedOutChildIsGone ==
    \A i \in Slots :
        (fut[i].st = "ready" /\ fut[i].out.v.ok /\ IsTimeoutResult(fut[i].out.v.value))
            => (nproc[i].st # "running" /\ wproc[i].st # "running")

\* C6: an action whose native process was started never gets a sandboxed
\* attempt.
C6_NativeStartedNeverSandboxed ==
    \A i \in Slots : nproc[i].st # "none" => wproc[i].st = "none"

\* C7: execute_action on an action whose tool resolves always returns a
\* ToolResult; it errors if and only if the tool does not resolve, and it
\* never aborts.
C7_OnlyUnknownToolErrors ==
    /\ pc # "panicked"
    /\ \A i \in Slots :
         fut[i].st = "ready" => (fut[i].out.v.ok <=> Resolves(queue[i]))

\* C8: the deadline of every action of a plan is the plan's own
\* timeout_seconds after the action's start.
C8_PlanTimeoutApplied ==
    \A i \in Slots :
        fut[i].st \in {"native_wait", "wasm_blocked"}
            => fut[i].deadline = fut[i].start + plan.timeout_seconds

----------------------------------------------------------------------------
(* Planner: characters and the scanning the regex crate and str do.        *)
(* Positions are 1-based; a scan returns the position after what it took.  *)

LowerCase == <<"a", "b", "c", "d", "e", "f", "g", "h", "i", "j", "k", "l", "m", "n", "o", "p", "q", "r", "s", "t", "u", "v", "w", "x", "y", "z">>
UpperCase == <<"A", "B", "C", "D", "E", "F", "G", "H", "I", "J", "K", "L", "M", "N", "O", "P", "Q", "R", "S", "T", "U", "V", "W", "X", "Y", "Z">>

\* \d
Digits == Range(<<"0", "1", "2", "3", "4", "5", "6", "7", "8", "9">>)

\* \w
WordChars == Range(LowerCase) \cup Range(UpperCase) \cup Digits \cup {"_"}

\* str::to_lowercase, and the folding (?i) does
to_lowercase(s) ==
    [i \in 1..Len(s) |->
        IF s[i] \in Range(UpperCase)
        THEN LowerCase[CHOOSE k \in 1..Len(UpperCase) : UpperCase[k] = s[i]]
        ELSE s[i]]

MinOf(S) == CHOOSE i \in S : \A j \in S : i <= j
MaxOf(S) == CHOOSE i \in S : \A j \in S : i >= j

\* a greedy repetition of a character class from position i: the first
\* position at or after i whose character is not in the class, the
\* position after the end of s if there is none
RECURSIVE SkipWhile(_, _, _)
SkipWhile(s, i, class) ==
    IF i <= Len(s) /\ s[i] \in class THEN SkipWhile(s, i + 1, class) ELSE i

\* a greedy repetition of a negated class [^...] from position i: the
\* first position at or after i whose character is one of those excluded
RECURSIVE SkipUntil(_, _, _)
SkipUntil(s, i, excluded) ==
    IF i <= Len(s) /\ s[i] \notin excluded THEN SkipUntil(s, i + 1, excluded) ELSE i

\* a literal at position i
LitAt(s, i, lit) ==
    /\ i >= 1
    /\ i + Len(lit) - 1 <= Len(s)
    /\ SubSeq(s, i, i + Len(lit) - 1) = lit

\* \b between s[i-1] and s[i]
WordBoundary(s, i) ==
    LET before == i > 1 /\ i - 1 <= Len(s) /\ s[i - 1] \in WordChars
        after == i >= 1 /\ i <= Len(s) /\ s[i] \in WordChars
    IN  before # after

\* Regex::captures, given what the pattern matches at each position: the
\* match at the leftmost position that has one
Leftmost(matches) ==
    LET starts == {i \in 1..Len(matches) : matches[i].some}
    IN  IF starts = {} THEN NoneV ELSE matches[MinOf(starts)]

\* str::split on a one-character separator
RECURSIVE Split(_, _)
Split(s, sep) ==
    LET at == {i \in 1..Len(s) : s[i] = sep}
    IN  IF at = {} THEN <<s>>
        ELSE <<SubSeq(s, 1, MinOf(at) - 1)>>
                \o Split(SubSeq(s, MinOf(at) + 1, Len(s)), sep)

\* str::lines: split at "\n", a line's trailing "\r" dropped, no last
\* empty line
lines(s) ==
    LET parts == Split(s, "\n")
        kept == IF parts[Len(parts)] = <<>> THEN SubSeq(parts, 1, Len(parts) - 1)
                ELSE parts
    IN  [i \in 1..Len(kept) |->
            IF kept[i] # <<>> /\ kept[i][Len(kept[i])] = "\r"
            THEN SubSeq(kept[i], 1, Len(kept[i]) - 1)
            ELSE kept[i]]

\* Planner::parse_args, planner.rs:307-313
parse_args(args_str) ==
    LET pieces == Split(args_str, ",")
        trimmed == [i \in 1..Len(pieces) |-> Trim(pieces[i])]
    IN  SelectSeq(trimmed, LAMBDA a : a # <<>>)

----------------------------------------------------------------------------
(* Planner: the patterns of parse_tool_line and of the extract_* probes    *)

\* (?i)use\s+tool:\s*(\w+)\s+with\s+args?:\s*(.+) matched at position i
UseToolAt(line, i) ==
    LET low == to_lowercase(line)
        a == i + 3
        b == SkipWhile(line, a, Spaces)
        c == b + 5
        d == SkipWhile(line, c, Spaces)
        e == SkipWhile(line, d, WordChars)
        f == SkipWhile(line, e, Spaces)
        g == f + 4
        h == SkipWhile(line, g, Spaces)
        k == h + 3
        m == IF LitAt(low, k, <<"s", ":">>) THEN k + 2
             ELSE IF LitAt(low, k, <<":">>) THEN k + 1
             ELSE 0
        n == SkipWhile(line, m, Spaces)
        \* \s* gives one character back when (.+) would find none
        p == IF n > Len(line) /\ n > m THEN n - 1 ELSE n
        q == SkipUntil(line, p, {"\n"})
    IN  IF /\ LitAt(low, i, <<"u", "s", "e">>) /\ b > a
           /\ LitAt(low, b, <<"t", "o", "o", "l", ":">>)
           /\ e > d /\ f > e
           /\ LitAt(low, f, <<"w", "i", "t", "h">>) /\ h > g
           /\ LitAt(low, h, <<"a", "r", "g">>) /\ m > 0
           /\ q > p
        THEN Some([tool |-> SubSeq(line, d, e - 1), args_str |-> SubSeq(line, p, q - 1)])
        ELSE NoneV

\* (\w+)\(([^)]+)\) matched at position i
CallAt(line, i) ==
    LET e == SkipWhile(line, i, WordChars)
        g == SkipUntil(line, e + 1, {")"})
    IN  IF e > i /\ LitAt(line, e, <<"(">>) /\ g > e + 1 /\ g <= Len(line)
        THEN Some([tool |-> SubSeq(line, i, e - 1), args_str |-> SubSeq(line, e + 1, g - 1)])
        ELSE NoneV

\* \s*[ops]\s*\d+ from position j: the position after it, 0 if it does
\* not match
OperatorStep(s, j, ops) ==
    LET a == SkipWhile(s, j, Spaces)
        b == SkipWhile(s, a + 1, Spaces)
        c == SkipWhile(s, b, Digits)
    IN  IF a <= Len(s) /\ s[a] \in ops /\ c > b THEN c ELSE 0

\* the ends of \d+(\s*[+\-*/]\s*\d+)^k for k = 1, 2, ..., the first
\* operand ending before position j
RECURSIVE ChainEnds(_, _)
ChainEnds(s, j) ==
    LET n == OperatorStep(s, j, {"+", "-", "*", "/"})
    IN  IF n = 0 THEN <<>> ELSE <<n>> \o ChainEnds(s, n)

\* \b(\d+\s*[+\-*/]\s*\d+(?:\s*[+\-*/]\s*\d+)*)\b matched at position i:
\* the longest chain that ends at a word boundary
ArithmeticAt(s, i) ==
    LET a == SkipWhile(s, i, Digits)
        ends == ChainEnds(s, a)
        good == {k \in 1..Len(ends) : WordBoundary(s, ends[k])}
    IN  IF WordBoundary(s, i) /\ a > i /\ good # {}
        THEN Some(SubSeq(s, i, ends[MaxOf(good)] - 1))
        ELSE NoneV

\* \bsqrt\(\d+\) matched at position i
SqrtAt(s, i) ==
    LET a == i + 5
        b == SkipWhile(s, a, Digits)
    IN  IF WordBoundary(s, i) /\ LitAt(s, i, <<"s", "q", "r", "t", "(">>) /\ b > a /\ LitAt(s, b, <<")">>)
        THEN Some(SubSeq(s, i, b))
        ELSE NoneV

\* \b\d+\s*\^\s*\d+\b matched at position i
PowerAt(s, i) ==
    LET a == SkipWhile(s, i, Digits)
        b == OperatorStep(s, a, {"^"})
    IN  IF WordBoundary(s, i) /\ a > i /\ b > 0 /\ WordBoundary(s, b)
        THEN Some(SubSeq(s, i, b - 1))
        ELSE NoneV

\* https?://[^\s]+ matched at position i
UrlAt(s, i) ==
    LET a == IF LitAt(s, i, <<"h", "t", "t", "p", "s", ":", "/", "/">>) THEN i + 8
             ELSE IF LitAt(s, i, <<"h", "t", "t", "p", ":", "/", "/">>) THEN i + 7
             ELSE 0
        b == SkipUntil(s, a, Spaces)
    IN  IF a > 0 /\ b > a THEN Some(SubSeq(s, i, b - 1)) ELSE NoneV

----------------------------------------------------------------------------
(* Planner: validation *)

\* anyhow!("Tool {} requires arguments", action.tool)
RequiresArgumentsError(tool) == <<"Tool ", tool, " requires arguments">>

\* anyhow!("Unknown tool: {}", action.tool)
UnknownPlannerToolError(tool) == <<"Unknown tool: ", tool>>

\* validate_action with the argument check of the alias branch left out
validate_action_alias_unchecked(avail, action) ==
    IF action.tool \in avail
    THEN IF action.args = <<>> THEN Err(RequiresArgumentsError(action.tool))
         ELSE Ok(TRUE)
    ELSE IF /\ action.tool \in {S_math, S_fetch, S_shell}
            /\ \E k \in avail : Contains(k, action.tool)
    THEN Ok(TRUE)
    ELSE Err(UnknownPlannerToolError(action.tool))

\* validate_action with the argument check of the registered-name branch
\* left out
validate_action_args_unchecked(avail, action) ==
    IF action.tool \in avail THEN Ok(TRUE)
    ELSE IF /\ action.tool \in {S_math, S_fetch, S_shell}
            /\ \E k \in avail : Contains(k, action.tool)
    THEN IF action.args = <<>> THEN Err(RequiresArgumentsError(action.tool))
         ELSE Ok(TRUE)
    ELSE Err(UnknownPlannerToolError(action.tool))

\* Planner::validate_action, planner.rs:315-340
validate_action(avail, action) ==
    IF action.tool \in avail
    THEN IF action.args = <<>> THEN Err(RequiresArgumentsError(action.tool))
         ELSE Ok(TRUE)
    ELSE LET mapped_tool_is_some ==
                /\ action.tool \in {S_math, S_fetch, S_shell}
                /\ \E k \in avail : Contains(k, action.tool)
         IN  IF mapped_tool_is_some
             THEN IF action.args = <<>>
                  THEN Err(RequiresArgumentsError(action.tool))
                  ELSE Ok(TRUE)
             ELSE Err(UnknownPlannerToolError(action.tool))

\* Planner::validate_actions, planner.rs:342-357: the loop from action i
\* on, `?` returning the first failure
RECURSIVE ValidateFrom(_, _, _, _)
ValidateFrom(avail, actions, i, validated) ==
    IF i > Len(actions)
    THEN IF validated = <<>> THEN Err(<<"No valid actions found">>)
         ELSE Ok(validated)
    ELSE LET r == validate_action(avail, actions[i])
         IN  IF ~r.ok THEN r
             ELSE ValidateFrom(avail, actions, i + 1,
                    IF r.value THEN Append(validated, actions[i]) ELSE validated)

validate_actions(avail, actions) == ValidateFrom(avail, actions, 1, <<>>)

----------------------------------------------------------------------------
(* Planner: serde_json::from_str.  A JSON text is read into a value        *)
(* (strings with the escapes of quote, backslash, slash, newline, tab and  *)
(* carriage return, non-negative integers, null,                           *)
(* booleans, arrays, objects), and the value is decoded into the struct.   *)

JFail == [ok |-> FALSE]
JOk(v, next) == [ok |-> TRUE, v |-> v, next |-> next]


DigitValue(c) == (CHOOSE k \in 1..10 : <<"0", "1", "2", "3", "4", "5", "6", "7", "8", "9">>[k] = c) - 1

RECURSIVE DecimalValue(_)
DecimalValue(s) ==
    IF s = <<>> THEN 0
    ELSE 10 * DecimalValue(SubSeq(s, 1, Len(s) - 1)) + DigitValue(s[Len(s)])

\* the character an escape sequence \c stands for
Unescaped(c) ==
    IF c = "n" THEN "\n" ELSE IF c = "t" THEN "\t" ELSE IF c = "r" THEN "\r" ELSE c

\* the characters of a string from position i to its closing quote, acc
\* read so far: an escape sequence gives its character, a control
\* character is an error
RECURSIVE JChars(_, _, _)
JChars(s, i, acc) ==
    IF i > Len(s) THEN JFail
    ELSE IF s[i] = "\"" THEN JOk([t |-> "str", s |-> acc], i + 1)
    ELSE IF s[i] = "\\"
         THEN IF i < Len(s) /\ s[i + 1] \in {"\"", "\\", "/", "n", "t", "r"}
              THEN JChars(s, i + 2, Append(acc, Unescaped(s[i + 1])))
              ELSE JFail
    ELSE IF s[i] \in {"\n", "\t", "\r"} THEN JFail
    ELSE JChars(s, i + 1, Append(acc, s[i]))

\* a string starting with the quote at position i
JString(s, i) == JChars(s, i + 1, <<>>)

\* a number starting with the digit at position i (no leading zero)
JNumber(s, i) ==
    LET e == SkipWhile(s, i, Digits)
    IN  IF s[i] = "0" /\ e > i + 1 THEN JFail
        ELSE JOk([t |-> "num", n |-> DecimalValue(SubSeq(s, i, e - 1))], e)

RECURSIVE JValue(_, _), JElements(_, _, _), JMembers(_, _, _)

JValue(s, i0) ==
    LET i == SkipWhile(s, i0, Spaces)
    IN  IF i > Len(s) THEN JFail
        ELSE IF s[i] = "\"" THEN JString(s, i)
        ELSE IF s[i] \in Digits THEN JNumber(s, i)
        ELSE IF LitAt(s, i, <<"n", "u", "l", "l">>) THEN JOk([t |-> "null"], i + 4)
        ELSE IF LitAt(s, i, <<"t", "r", "u", "e">>) THEN JOk([t |-> "bool", b |-> TRUE], i + 4)
        ELSE IF LitAt(s, i, <<"f", "a", "l", "s", "e">>) THEN JOk([t |-> "bool", b |-> FALSE], i + 5)
        ELSE IF s[i] = "["
             THEN LET j == SkipWhile(s, i + 1, Spaces)
                  IN  IF LitAt(s, j, <<"]">>) THEN JOk([t |-> "arr", items |-> <<>>], j + 1)
                      ELSE JElements(s, i + 1, <<>>)
        ELSE IF s[i] = "{"
             THEN LET j == SkipWhile(s, i + 1, Spaces)
                  IN  IF LitAt(s, j, <<"}">>) THEN JOk([t |-> "obj", fields |-> <<>>], j + 1)
                      ELSE JMembers(s, j, <<>>)
        ELSE JFail

\* the elements of an array from position i on, acc read so far
JElements(s, i, acc) ==
    LET r == JValue(s, i)
        j == SkipWhile(s, r.next, Spaces)
    IN  IF ~r.ok THEN JFail
        ELSE IF LitAt(s, j, <<",">>) THEN JElements(s, j + 1, Append(acc, r.v))
        ELSE IF LitAt(s, j, <<"]">>) THEN JOk([t |-> "arr", items |-> Append(acc, r.v)], j + 1)
        ELSE JFail

\* the members of an object, the next key's quote expected at position i
JMembers(s, i, acc) ==
    LET key == JString(s, i)
        c == SkipWhile(s, key.next, Spaces)
        r == JValue(s, c + 1)
        j == SkipWhile(s, r.next, Spaces)
        member == [k |-> key.v.s, v |-> r.v]
    IN  IF ~LitAt(s, i, <<"\"">>) THEN JFail
        ELSE IF ~key.ok THEN JFail
        ELSE IF ~LitAt(s, c, <<":">>) THEN JFail
        ELSE IF ~r.ok THEN JFail
        ELSE IF LitAt(s, j, <<",">>)
             THEN JMembers(s, SkipWhile(s, j + 1, Spaces), Append(acc, member))
        ELSE IF LitAt(s, j, <<"}">>) THEN JOk([t |-> "obj", fields |-> Append(acc, member)], j + 1)
        ELSE JFail

\* serde_json::from_str::<Value>: one value, then only white space
from_str(s) ==
    LET r == JValue(s, 1)
    IN  IF r.ok /\ SkipWhile(s, r.next, Spaces) > Len(s) THEN Some(r.v) ELSE NoneV

----------------------------------------------------------------------------
(* Planner: the structs serde decodes (planner.rs:5-73).  A struct is      *)
(* decoded from an object by field name (unknown members ignored, a        *)
(* repeated field an error) or from an array of its fields in order.       *)

\* default_priority, planner.rs:17-19
default_priority == 5

\* u8::MAX
MaxU8 == 255

Members(v, key) == SelectSeq(v.fields, LAMBDA f : f.k = key)

IsStringArray(v) ==
    /\ v.t = "arr"
    /\ \A i \in 1..Len(v.items) : v.items[i].t = "str"

IsOptionalString(v) == v.t \in {"str", "null"}

OptionalString(v) == IF v.t = "str" THEN Some(v.s) ELSE NoneV

IsU8(v) == v.t = "num" /\ v.n <= MaxU8

\* an ActionPlan from the values of its fields, each a sequence holding
\* the value given for the field, if one was given
ActionPlan_from_fields(tool, args, context, reasoning, priority) ==
    IF /\ Len(tool) = 1 /\ tool[1].t = "str"
       /\ Len(args) = 1 /\ IsStringArray(args[1])
       /\ Len(context) <= 1 /\ \A i \in 1..Len(context) : IsOptionalString(context[i])
       /\ Len(reasoning) <= 1 /\ \A i \in 1..Len(reasoning) : IsOptionalString(reasoning[i])
       /\ Len(priority) <= 1 /\ \A i \in 1..Len(priority) : IsU8(priority[i])
    THEN Some([tool |-> tool[1].s,
               args |-> [i \in 1..Len(args[1].items) |-> args[1].items[i].s],
               context |-> IF context = <<>> THEN NoneV ELSE OptionalString(context[1]),
               reasoning |-> IF reasoning = <<>> THEN NoneV ELSE OptionalString(reasoning[1]),
               priority |-> IF priority = <<>> THEN default_priority ELSE priority[1].n])
    ELSE NoneV

Values(ms) == [i \in 1..Len(ms) |-> ms[i].v]

\* the k-th element of an array, if it has one
ItemAt(items, k) == IF k <= Len(items) THEN <<items[k]>> ELSE <<>>

\* Deserialize for ActionPlan, planner.rs:5-15
ActionPlan_from_value(v) ==
    IF v.t = "obj"
    THEN ActionPlan_from_fields(Values(Members(v, <<"t", "o", "o", "l">>)), Values(Members(v, <<"a", "r", "g", "s">>)),
            Values(Members(v, <<"c", "o", "n", "t", "e", "x", "t">>)), Values(Members(v, <<"r", "e", "a", "s", "o", "n", "i", "n", "g">>)),
            Values(Members(v, <<"p", "r", "i", "o", "r", "i", "t", "y">>)))
    ELSE IF v.t = "arr" /\ Len(v.items) <= 5
    THEN ActionPlan_from_fields(ItemAt(v.items, 1), ItemAt(v.items, 2),
            ItemAt(v.items, 3), ItemAt(v.items, 4), ItemAt(v.items, 5))
    ELSE NoneV

\* Deserialize for Vec<ActionPlan>
ActionPlans_from_value(v) ==
    IF v.t = "arr" /\ \A i \in 1..Len(v.items) : ActionPlan_from_value(v.items[i]).some
    THEN Some([i \in 1..Len(v.items) |-> ActionPlan_from_value(v.items[i]).v])
    ELSE NoneV

\* Deserialize for ExecutionStrategy, planner.rs:68-73: the variant's name
IsExecutionStrategy(v) ==
    v.t = "str" /\ v.s \in {<<"S", "e", "q", "u", "e", "n", "t", "i", "a", "l">>, <<"P", "a", "r", "a", "l", "l", "e", "l">>, <<"P", "r", "i", "o", "r", "i", "t", "y">>}

StrategyName(s) ==
    IF s = <<"S", "e", "q", "u", "e", "n", "t", "i", "a", "l">> THEN "Sequential"
    ELSE IF s = <<"P", "a", "r", "a", "l", "l", "e", "l">> THEN "Parallel"
    ELSE "Priority"

ExecutionPlan_from_fields(actions, execution_strategy, timeout_seconds) ==
    IF /\ Len(actions) = 1 /\ ActionPlans_from_value(actions[1]).some
       /\ Len(execution_strategy) = 1 /\ IsExecutionStrategy(execution_strategy[1])
       /\ Len(timeout_seconds) = 1 /\ timeout_seconds[1].t = "num"
    THEN Some([actions |-> ActionPlans_from_value(actions[1]).v,
               execution_strategy |-> StrategyName(execution_strategy[1].s),
               timeout_seconds |-> timeout_seconds[1].n])
    ELSE NoneV

\* Deserialize for ExecutionPlan, planner.rs:61-66
ExecutionPlan_from_value(v) ==
    IF v.t = "obj"
    THEN ExecutionPlan_from_fields(Values(Members(v, <<"a", "c", "t", "i", "o", "n", "s">>)),
            Values(Members(v, <<"e", "x", "e", "c", "u", "t", "i", "o", "n", "_", "s", "t", "r", "a", "t", "e", "g", "y">>)),
            Values(Members(v, <<"t", "i", "m", "e", "o", "u", "t", "_", "s", "e", "c", "o", "n", "d", "s">>)))
    ELSE IF v.t = "arr" /\ Len(v.items) <= 3
    THEN ExecutionPlan_from_fields(ItemAt(v.items, 1), ItemAt(v.items, 2),
            ItemAt(v.items, 3))
    ELSE NoneV

----------------------------------------------------------------------------
(* Planner: the three tiers *)

SequentialPlan(actions) ==
    [actions |-> actions, execution_strategy |-> "Sequential",
     timeout_seconds |-> PlannerDefaultTimeout]

\* `if self.validate_action(&action)? { return accepted }`: the failure
\* of the validation returned, the accepted value returned, or the code
\* after the if
AcceptIfValid(avail, action, accepted, otherwise) ==
    LET valid == validate_action(avail, action)
    IN  IF ~valid.ok THEN valid
        ELSE IF valid.value THEN accepted
        ELSE otherwise

\* the plan made of validate_actions' outcome, planner.rs:139-144, 149-154
PlanOfValidated(validated_actions, execution_strategy, timeout_seconds) ==
    IF ~validated_actions.ok THEN validated_actions
    ELSE Ok([actions |-> validated_actions.value,
             execution_strategy |-> execution_strategy,
             timeout_seconds |-> timeout_seconds])

\* the full execution plan given the strategy and timeout of the other
\* plans
parse_json_plan_with_defaults(avail, decoded) ==
    IF ~decoded.some THEN Err(<<"Invalid JSON format">>)
    ELSE PlanOfValidated(validate_actions(avail, decoded.v.actions),
            "Sequential", PlannerDefaultTimeout)

\* parse_json_response, planner.rs:147-157: the full execution plan
parse_json_plan(avail, decoded) ==
    IF ~decoded.some THEN Err(<<"Invalid JSON format">>)
    ELSE PlanOfValidated(validate_actions(avail, decoded.v.actions),
            decoded.v.execution_strategy, decoded.v.timeout_seconds)

\* parse_json_response, planner.rs:137-145: the array of actions
parse_json_array(avail, actions, otherwise) ==
    IF ~actions.some THEN otherwise
    ELSE PlanOfValidated(validate_actions(avail, actions.v),
            "Sequential", PlannerDefaultTimeout)

\* the single action with an alias rewritten to the native tool it
\* stands for
parse_json_action_alias_rewritten(avail, single_action, otherwise) ==
    IF ~single_action.some THEN otherwise
    ELSE AcceptIfValid(avail, single_action.v,
            Ok(SequentialPlan(<<[single_action.v EXCEPT !.tool =
                IF @ = S_math /\ S_math_native \in avail THEN S_math_native ELSE @]>>)),
            otherwise)

\* parse_json_response, planner.rs:126-135: the single action
parse_json_action(avail, single_action, otherwise) ==
    IF ~single_action.some THEN otherwise
    ELSE AcceptIfValid(avail, single_action.v,
            Ok(SequentialPlan(<<single_action.v>>)), otherwise)

\* the three serde_json::from_str::<T> of the text, value being what the
\* text reads as: a text that is no JSON decodes as none of the three
parse_json_value(avail, value) ==
    IF ~value.some THEN Err(<<"Invalid JSON format">>)
    ELSE parse_json_action(avail, ActionPlan_from_value(value.v),
            parse_json_array(avail, ActionPlans_from_value(value.v),
                parse_json_plan(avail, ExecutionPlan_from_value(value.v))))

\* Planner::parse_json_response, planner.rs:123-158
parse_json_response(avail, input) ==
    parse_json_value(avail, from_str(Trim(input)))

\* parse_tool_line, planner.rs:188-199 and 202-213: what is done with the
\* captures of one pattern
ToolLineCandidate(avail, caps, otherwise) ==
    IF ~caps.some THEN otherwise
    ELSE AcceptIfValid(avail,
            ActionPlan_new(caps.v.tool, parse_args(caps.v.args_str)),
            Ok(Some(ActionPlan_new(caps.v.tool, parse_args(caps.v.args_str)))),
            otherwise)

\* Planner::parse_tool_line, planner.rs:186-216
parse_tool_line(avail, line) ==
    ToolLineCandidate(avail, Leftmost([i \in 1..Len(line) |-> UseToolAt(line, i)]),
        ToolLineCandidate(avail, Leftmost([i \in 1..Len(line) |-> CallAt(line, i)]),
            Ok(NoneV)))

\* parse_structured_text, planner.rs:170-172: `?` on the line's outcome,
\* rest being the loop over the lines after it given the actions so far
RECURSIVE StructuredFrom(_, _, _, _)
StructuredLine(avail, ls, i, actions, parsed) ==
    IF ~parsed.ok THEN parsed
    ELSE StructuredFrom(avail, ls, i + 1,
            IF parsed.value.some THEN Append(actions, parsed.value.v) ELSE actions)

\* Planner::parse_structured_text, planner.rs:161-184: the loop from line
\* i on
StructuredFrom(avail, ls, i, actions) ==
    IF i > Len(ls)
    THEN IF actions = <<>> THEN Err(<<"No valid tool commands found">>)
         ELSE Ok(SequentialPlan(actions))
    ELSE IF Trim(ls[i]) = <<>> THEN StructuredFrom(avail, ls, i + 1, actions)
    ELSE StructuredLine(avail, ls, i, actions, parse_tool_line(avail, Trim(ls[i])))

parse_structured_text(avail, input) ==
    StructuredFrom(avail, lines(input), 1, <<>>)

\* ActionPlan::with_reasoning, planner.rs:37-40
with_reasoning(action, reasoning) == [action EXCEPT !.reasoning = Some(reasoning)]

\* the captures of the math patterns with the power pattern tried first
math_patterns_power_first(text) ==
    << Leftmost([i \in 1..Len(text) |-> PowerAt(text, i)]),
       Leftmost([i \in 1..Len(text) |-> ArithmeticAt(text, i)]),
       Leftmost([i \in 1..Len(text) |-> SqrtAt(text, i)]) >>

\* the captures of the three math_patterns, planner.rs:250-258: group 1
\* where the pattern has one, else the whole match
math_patterns(text) ==
    << Leftmost([i \in 1..Len(text) |-> ArithmeticAt(text, i)]),
       Leftmost([i \in 1..Len(text) |-> SqrtAt(text, i)]),
       Leftmost([i \in 1..Len(text) |-> PowerAt(text, i)]) >>

\* planner.rs:259-260
MathAction(expression) ==
    with_reasoning(ActionPlan_new(S_math, <<expression>>),
        <<"Detected math expression in natural language">>)

\* Planner::extract_math_action, planner.rs:248-269: the loop from
\* pattern k on
RECURSIVE MathFrom(_, _, _)
MathFrom(avail, caps, k) ==
    IF k > Len(caps) THEN Ok(NoneV)
    ELSE IF ~caps[k].some THEN MathFrom(avail, caps, k + 1)
    ELSE AcceptIfValid(avail, MathAction(caps[k].v), Ok(Some(MathAction(caps[k].v))),
            MathFrom(avail, caps, k + 1))

extract_math_action(avail, text) == MathFrom(avail, math_patterns(text), 1)

\* planner.rs:276-277
FetchAction(url) ==
    with_reasoning(ActionPlan_new(S_fetch, <<<<"g", "e", "t">>, url>>), <<"Detected URL in text">>)

\* extract_fetch_action, planner.rs:274-282: what is done with the captures
FetchCandidate(avail, caps) ==
    IF ~caps.some THEN Ok(NoneV)
    ELSE AcceptIfValid(avail, FetchAction(caps.v), Ok(Some(FetchAction(caps.v))),
            Ok(NoneV))

\* Planner::extract_fetch_action, planner.rs:271-285
extract_fetch_action(avail, text) ==
    FetchCandidate(avail, Leftmost([i \in 1..Len(text) |-> UrlAt(text, i)]))

\* planner.rs:289
shell_indicators == <<<<"r", "u", "n", " ", "c", "o", "m", "m", "a", "n", "d">>, <<"e", "x", "e", "c", "u", "t", "e">>, <<"s", "h", "e", "l", "l">>, <<"c", "o", "m", "m", "a", "n", "d">>>>

\* planner.rs:295-296
ShellAction ==
    with_reasoning(ActionPlan_new(S_shell, <<<<"e", "c", "h", "o">>, <<"H", "e", "l", "l", "o", " ", "f", "r", "o", "m", " ", "s", "h", "e", "l", "l">>>>),
        <<"Detected shell command request">>)

\* Planner::extract_shell_action, planner.rs:287-305: the loop from
\* indicator k on, lowered being text.to_lowercase()
RECURSIVE ShellFrom(_, _, _)
ShellFrom(avail, lowered, k) ==
    IF k > Len(shell_indicators) THEN Ok(NoneV)
    ELSE IF ~Contains(lowered, shell_indicators[k]) THEN ShellFrom(avail, lowered, k + 1)
    ELSE AcceptIfValid(avail, ShellAction, Ok(Some(ShellAction)),
            ShellFrom(avail, lowered, k + 1))

extract_shell_action(avail, text) == ShellFrom(avail, to_lowercase(text), 1)

\* actions.push(action) if the probe found one
Pushed(actions, found) == IF found.some THEN Append(actions, found.v) ELSE actions

\* parse_natural_language, planner.rs:223-245: `?` on each probe's outcome
\* and the plan of what they found
NaturalPlan(math, fetch, shell) ==
    IF ~math.ok THEN math
    ELSE IF ~fetch.ok THEN fetch
    ELSE IF ~shell.ok THEN shell
    ELSE IF Pushed(Pushed(Pushed(<<>>, math.value), fetch.value), shell.value) = <<>>
         THEN Err(<<"Could not extract actions from natural language">>)
    ELSE Ok(SequentialPlan(
            Pushed(Pushed(Pushed(<<>>, math.value), fetch.value), shell.value)))

\* Planner::parse_natural_language, planner.rs:219-246
parse_natural_language(avail, input) ==
    NaturalPlan(extract_math_action(avail, input), extract_fetch_action(avail, input),
        extract_shell_action(avail, input))

CouldNotParseError(input) ==
    <<"Could not parse LLM response into action plan: ", input>>

\* `if let Ok(plan) = tier { return Ok(plan) }`: tried being the tiers run
\* so far, outcome what the last of them returned
ReturnIfOk(tried, outcome, otherwise) ==
    IF outcome.ok THEN [tried |-> tried, result |-> outcome] ELSE otherwise

\* parse_llm_response with the natural-language tier tried second
parse_llm_response_natural_first(avail, input) ==
    ReturnIfOk(<<"parse_json_response">>, parse_json_response(avail, input),
        ReturnIfOk(<<"parse_json_response", "parse_natural_language">>, parse_natural_language(avail, input),
            ReturnIfOk(<<"parse_json_response", "parse_natural_language", "parse_structured_text">>,
                parse_structured_text(avail, input),
                [tried |-> <<"parse_json_response", "parse_natural_language", "parse_structured_text">>,
                 result |-> Err(CouldNotParseError(input))])))

\* Planner::parse_llm_response, planner.rs:105-120: the tiers it ran, in
\* the order it ran them, and what it returned
parse_llm_response(avail, input) ==
    ReturnIfOk(<<"parse_json_response">>, parse_json_response(avail, input),
        ReturnIfOk(<<"parse_json_response", "parse_structured_text">>, parse_structured_text(avail, input),
            ReturnIfOk(<<"parse_json_response", "parse_structured_text", "parse_natural_language">>,
                parse_natural_language(avail, input),
                [tried |-> <<"parse_json_response", "parse_structured_text", "parse_natural_language">>,
                 result |-> Err(CouldNotParseError(input))])))

----------------------------------------------------------------------------
(* Specification of the planner *)

\* names Planner::register_tool is called with: those of Planner::default,
\* planner.rs:413-458
PlannerToolNames == {S_math_native, S_math, S_fetch, S_shell}

\* texts given to parse_llm_response
Responses ==
    {
      <<"{", "\"", "t", "o", "o", "l", "\"", ":", " ", "\"", "m", "a", "t",
        "h", "\"", ",", " ", "\"", "a", "r", "g", "s", "\"", ":", " ", "[",
        "\"", "2", "+", "2", "\"", "]", ",", " ", "\"", "r", "e", "a", "s",
        "o", "n", "i", "n", "g", "\"", ":", " ", "\"", "a", "d", "d", "\"",
        "}">>,
      <<"{", "\"", "t", "o", "o", "l", "\"", ":", " ", "\"", "m", "a", "t",
        "h", "\"", ",", " ", "\"", "a", "r", "g", "s", "\"", ":", " ", "[",
        "]", "}">>,
      <<"[", "{", "\"", "t", "o", "o", "l", "\"", ":", " ", "\"", "m", "a",
        "t", "h", "\"", ",", " ", "\"", "a", "r", "g", "s", "\"", ":", " ",
        "[", "\"", "2", "+", "2", "\"", "]", "}", ",", " ", "{", "\"", "t",
        "o", "o", "l", "\"", ":", " ", "\"", "n", "o", "p", "e", "\"", ",",
        " ", "\"", "a", "r", "g", "s", "\"", ":", " ", "[", "\"", "1", "\"",
        "]", "}", "]">>,
      <<"{", "\"", "a", "c", "t", "i", "o", "n", "s", "\"", ":", " ", "[",
        "{", "\"", "t", "o", "o", "l", "\"", ":", " ", "\"", "f", "e", "t",
        "c", "h", "\"", ",", " ", "\"", "a", "r", "g", "s", "\"", ":", " ",
        "[", "\"", "g", "e", "t", "\"", ",", " ", "\"", "u", "\"", "]", ",",
        " ", "\"", "p", "r", "i", "o", "r", "i", "t", "y", "\"", ":", " ",
        "1", "2", "}", "]", ",", " ", "\"", "e", "x", "e", "c", "u", "t",
        "i", "o", "n", "_", "s", "t", "r", "a", "t", "e", "g", "y", "\"",
        ":", " ", "\"", "P", "a", "r", "a", "l", "l", "e", "l", "\"", ",",
        " ", "\"", "t", "i", "m", "e", "o", "u", "t", "_", "s", "e", "c",
        "o", "n", "d", "s", "\"", ":", " ", "7", "}">>,
      <<"[", "]">>,
      <<" ", " ", "{", "\"", "t", "o", "o", "l", "\"", ":", "\"", "s", "h",
        "e", "l", "l", "\"", ",", "\"", "a", "r", "g", "s", "\"", ":", "[",
        "\"", "l", "s", "\"", "]", "}", "\n">>,
      <<"U", "s", "e", " ", "t", "o", "o", "l", ":", " ", "m", "a", "t", "h",
        " ", "w", "i", "t", "h", " ", "a", "r", "g", "s", ":", " ", "5", "*",
        "7">>,
      <<"u", "s", "e", " ", "t", "o", "o", "l", ":", " ", "m", "a", "t", "h",
        "-", "n", "a", "t", "i", "v", "e", " ", "w", "i", "t", "h", " ", "a",
        "r", "g", "s", ":", " ", "5">>,
      <<"m", "a", "t", "h", "(", "2", "+", "2", ",", " ", "3", ")">>,
      <<"n", "o", "p", "e", "(", "1", ")", "\n", "m", "a", "t", "h", "(",
        "2", "+", "2", ")">>,
      <<"I", " ", "n", "e", "e", "d", " ", "t", "o", " ", "c", "a", "l", "c",
        "u", "l", "a", "t", "e", " ", "5", " ", "*", " ", "7", " ", "f", "o",
        "r", " ", "m", "y", " ", "h", "o", "m", "e", "w", "o", "r", "k">>,
      <<"s", "e", "e", " ", "h", "t", "t", "p", "s", ":", "/", "/", "a", ".",
        "i", "o", " ", "a", "n", "d", " ", "r", "u", "n", " ", "c", "o", "m",
        "m", "a", "n", "d">>,
      <<"s", "q", "r", "t", "(", "1", "6", ")">>,
      <<"h", "e", "l", "l", "o">>,
      <<"5", "*", "7", "a", "b", "c">>,
      <<"2", "^", "3", " ", "a", "n", "d", " ", "1", "+", "1">>
    }

\* most arguments of an action given to validate_action
MaxArgs == 1

\* actions given to validate_action
CheckedActions ==
    {ActionPlan_new(t, a) :
        t \in PlannerToolNames \cup {S_nope},
        a \in SeqsUpTo({<<"1">>}, MaxArgs)}

\* Planner::register_tool, planner.rs:96-98; the tools are registered
\* before the planner is used (lib.rs:74-94)
PlannerRegisterTool(name) ==
    /\ parse_pc = "ready"
    /\ available_tools' = available_tools \cup {name}
    /\ UNCHANGED <<response, parse_pc, parse_out, checked, dvars, mvars, avars>>

\* the call of Planner::parse_llm_response
ParseResponse(r) ==
    /\ parse_pc = "ready"
    /\ response' = Some(r)
    /\ parse_out' = Some(parse_llm_response(available_tools, r))
    /\ parse_pc' = "parsed"
    /\ UNCHANGED <<available_tools, checked, dvars, mvars, avars>>

\* the call of Planner::validate_action
ValidateAction(a) ==
    /\ parse_pc = "ready"
    /\ checked' = Some([action |-> a, out |-> validate_action(available_tools, a)])
    /\ parse_pc' = "validated"
    /\ UNCHANGED <<available_tools, response, parse_out, dvars, mvars, avars>>

PlannerNext ==
    \/ \E name \in PlannerToolNames : PlannerRegisterTool(name)
    \/ \E r \in Responses : ParseResponse(r)
    \/ \E a \in CheckedActions : ValidateAction(a)

SpecPlanner == DInit /\ [][PlannerNext]_vars

----------------------------------------------------------------------------
(* Claims about the planner *)

TierOrder == <<"parse_json_response", "parse_structured_text", "parse_natural_language">>

\* what each tier makes of the response and the registry, by tier name
TierResult(tier) ==
    IF tier = "parse_json_response" THEN parse_json_response(available_tools, response.v)
    ELSE IF tier = "parse_structured_text" THEN parse_structured_text(available_tools, response.v)
    ELSE parse_natural_language(available_tools, response.v)

\* C9: parse_llm_response runs the structured-decode tier, then the
\* line-pattern tier, then the natural-language tier, each only after the
\* ones before it failed; it returns the plan of the first tier that
\* succeeds, as that tier made it, and fails exactly when all three fail.
C9_FirstSuccessfulTierWins ==
    parse_out.some =>
        LET tried == parse_out.v.tried
            result == parse_out.v.result
            last == Len(tried)
        IN  /\ last \in 1..3
            /\ tried = SubSeq(TierOrder, 1, last)
            /\ \A k \in 1..(last - 1) : ~TierResult(tried[k]).ok
            /\ result.ok <=> \E k \in 1..3 : TierResult(TierOrder[k]).ok
            /\ result.ok => result = TierResult(tried[last])
            /\ ~result.ok => last = 3

\* the line-pattern tier won although the natural-language tier would
\* have made a different plan of the same text
C9_Witness ==
    /\ parse_out.some
    /\ parse_out.v.tried = <<"parse_json_response", "parse_structured_text">>
    /\ parse_out.v.result.ok
    /\ TierResult("parse_natural_language").ok
    /\ TierResult("parse_natural_language") # parse_out.v.result

IsAlias(tool) == tool \in {S_math, S_fetch, S_shell}

\* C10: validate_action passes exactly when the tool is a registered
\* name, or an alias (math, fetch, shell) contained in a registered name,
\* and the action has an argument; a failure names the action's tool.
C10_ValidIffResolvableWithArgs ==
    checked.some =>
        LET a == checked.v.action
            out == checked.v.out
            resolvable ==
                \/ a.tool \in available_tools
                \/ IsAlias(a.tool) /\ \E k \in available_tools : Contains(k, a.tool)
        IN  /\ out.ok <=> (resolvable /\ Len(a.args) >= 1)
            /\ out.ok => out.value
            /\ ~out.ok => out.error[2] = a.tool

\* an alias that is not itself registered was validated, with and without
\* an argument
C10_Witness ==
    /\ checked.some
    /\ checked.v.action.tool = S_math
    /\ S_math \notin available_tools
    /\ S_math_native \in available_tools
    /\ checked.v.action.args = <<>>
    /\ ~checked.v.out.ok

\* whether validate_action accepts the action with the registry as it is
IsValid(action) == validate_action(available_tools, action).ok

\* the candidate actions the two line patterns make of a line, the
\* "use tool" pattern first
LineCandidates(line) ==
    LET use == Leftmost([i \in 1..Len(line) |-> UseToolAt(line, i)])
        call == Leftmost([i \in 1..Len(line) |-> CallAt(line, i)])
        made(caps) == IF caps.some
                      THEN <<ActionPlan_new(caps.v.tool, parse_args(caps.v.args_str))>>
                      ELSE <<>>
    IN  made(use) \o made(call)

\* the valid action each line of the response yields, in line order: of
\* each line the first candidate that is valid
ValidLineActions ==
    LET ls == lines(response.v)
        valid == [i \in 1..Len(ls) |-> SelectSeq(LineCandidates(Trim(ls[i])), IsValid)]
        yielding == SelectSeq(valid, LAMBDA v : v # <<>>)
    IN  [k \in 1..Len(yielding) |-> yielding[k][1]]

\* C11: when at least one line of the text yields a valid action, the
\* line-pattern tier returns a plan holding the valid actions in line
\* order, whatever the other lines contain.
C11_InvalidLinesSkipped ==
    (parse_out.some /\ ValidLineActions # <<>>) =>
        /\ TierResult("parse_structured_text").ok
        /\ TierResult("parse_structured_text").value.actions = ValidLineActions

\* the action a probe of the natural-language tier contributes: the one
\* made of what its pattern found, if its tool is valid
ProbeAction(found, action) ==
    IF found /\ IsValid(action) THEN <<action>> ELSE <<>>

\* the actions of the math, fetch and shell probes, each probe taken alone
IndependentProbeActions ==
    LET text == response.v
        math == SelectSeq(math_patterns(text), LAMBDA caps : caps.some)
        url == Leftmost([i \in 1..Len(text) |-> UrlAt(text, i)])
        shell == \E k \in 1..Len(shell_indicators) :
                    Contains(to_lowercase(text), shell_indicators[k])
    IN  ProbeAction(math # <<>>, MathAction(IF math # <<>> THEN math[1].v ELSE <<>>))
            \o ProbeAction(url.some, FetchAction(IF url.some THEN url.v ELSE <<>>))
            \o ProbeAction(shell, ShellAction)

\* C12: the natural-language tier returns the actions of all probes that
\* find their pattern and whose tool is valid, in the order math, fetch,
\* shell, and fails only if there is none: a probe that fails does not
\* suppress the action of another.
C12_ProbesIndependent ==
    parse_out.some =>
        /\ TierResult("parse_natural_language").ok <=> IndependentProbeActions # <<>>
        /\ TierResult("parse_natural_language").ok =>
             TierResult("parse_natural_language").value.actions = IndependentProbeActions

\* the actions the response decodes to as a JSON array of actions or as
\* an execution-plan object; none if it is neither
DecodedActions ==
    LET value == from_str(Trim(response.v))
        actions == IF value.some THEN ActionPlans_from_value(value.v) ELSE NoneV
        decoded == IF value.some THEN ExecutionPlan_from_value(value.v) ELSE NoneV
    IN  IF actions.some THEN actions.v
        ELSE IF decoded.some THEN decoded.v.actions
        ELSE <<>>

\* C13: a JSON array or plan object in which at least one decoded action
\* is valid yields a plan of the structured-decode tier, holding the valid
\* actions; the tier falls through only if validation fails for all.
C13_InvalidDecodedActionsDropped ==
    (parse_out.some /\ \E k \in 1..Len(DecodedActions) : IsValid(DecodedActions[k])) =>
        /\ TierResult("parse_json_response").ok
        /\ TierResult("parse_json_response").value.actions
             = SelectSeq(DecodedActions, IsValid)

\* the plan parse_llm_response returned
ReturnedPlan == parse_out.v.result.value

\* parse_llm_response returned a plan
PlanReturned == parse_out.some /\ parse_out.v.result.ok

\* what the response, trimmed, reads as
ResponseValue == from_str(Trim(response.v))

\* the execution-plan object the returned plan was decoded from: the
\* response decodes as one and neither as a single action nor as an array
\* of actions
PlanObject ==
    IF /\ ResponseValue.some
       /\ ~ActionPlan_from_value(ResponseValue.v).some
       /\ ~ActionPlans_from_value(ResponseValue.v).some
    THEN ExecutionPlan_from_value(ResponseValue.v)
    ELSE NoneV

\* C14: a plan returned by parse_llm_response is Sequential with the
\* parser's default timeout of 30 s, except a plan decoded from a full
\* execution-plan object, which has the strategy and the timeout given in
\* the object.
C14_StrategyAndTimeout ==
    PlanReturned =>
        IF parse_out.v.tried = <<"parse_json_response">> /\ PlanObject.some
        THEN /\ ReturnedPlan.execution_strategy = PlanObject.v.execution_strategy
             /\ ReturnedPlan.timeout_seconds = PlanObject.v.timeout_seconds
        ELSE /\ ReturnedPlan.execution_strategy = "Sequential"
             /\ ReturnedPlan.timeout_seconds = 30

\* C14 witness: a plan object giving Parallel and 7 s was decoded and its
\* plan returned with them
C14_Witness ==
    /\ PlanReturned
    /\ PlanObject.some
    /\ ReturnedPlan.execution_strategy = "Parallel"
    /\ ReturnedPlan.timeout_seconds = 7

\* the strings of a JSON array of strings
Strings(v) == [i \in 1..Len(v.items) |-> v.items[i].s]

\* the response is a single JSON action object whose tool is registered
\* and whose args are not empty
IsRegisteredActionObject ==
    /\ ResponseValue.some
    /\ ResponseValue.v.t = "obj"
    /\ ActionPlan_from_value(ResponseValue.v).some
    /\ ActionPlan_from_value(ResponseValue.v).v.tool \in available_tools
    /\ ActionPlan_from_value(ResponseValue.v).v.args # <<>>

\* C15: of a single JSON action object whose tool is registered and whose
\* args are not empty parse_llm_response returns a plan of exactly one
\* action, with the tool and the args of the object, unchanged.
C15_SingleActionUnchanged ==
    (parse_out.some /\ IsRegisteredActionObject) =>
        /\ PlanReturned
        /\ Len(ReturnedPlan.actions) = 1
        /\ ReturnedPlan.actions[1].tool = Members(ResponseValue.v, <<"t", "o", "o", "l">>)[1].v.s
        /\ ReturnedPlan.actions[1].args = Strings(Members(ResponseValue.v, <<"a", "r", "g", "s">>)[1].v)

\* C15 witness: {"tool": "math", ...} was parsed with math and
\* math-native both registered, and the action names math
C15_Witness ==
    /\ parse_out.some
    /\ IsRegisteredActionObject
    /\ {S_math, S_math_native} \subseteq available_tools
    /\ PlanReturned
    /\ ReturnedPlan.actions[1].tool = S_math
    /\ ReturnedPlan.actions[1].args = <<<<"2", "+", "2">>>>

\* the registered names and the rests for which the response is the one
\* line "use tool: <name> with args: <rest>", case-insensitively
UseToolForms ==
    LET text == response.v
    IN  {form \in [name : available_tools, rest : {SubSeq(text, k, Len(text)) : k \in 1..Len(text)}] :
            /\ "\n" \notin Range(text)
            /\ Len(text) = 10 + Len(form.name) + 12 + Len(form.rest)
            /\ to_lowercase(SubSeq(text, 1, 10)) = <<"u", "s", "e", " ", "t", "o", "o", "l", ":", " ">>
            /\ SubSeq(text, 11, 10 + Len(form.name)) = form.name
            /\ to_lowercase(SubSeq(text, 11 + Len(form.name), 22 + Len(form.name)))
                 = <<" ", "w", "i", "t", "h", " ", "a", "r", "g", "s", ":", " ">>}

\* C16: of a one-line text "Use tool: <name> with args: <rest>" that is
\* not JSON and whose <name> is a registered tool parse_llm_response
\* returns exactly one action, with tool <name> and the args <rest> split
\* on commas, each piece trimmed, the empty pieces dropped.
C16_UseToolLine ==
    (parse_out.some /\ ~ResponseValue.some) =>
        \A form \in UseToolForms :
            /\ PlanReturned
            /\ Len(ReturnedPlan.actions) = 1
            /\ ReturnedPlan.actions[1].tool = form.name
            /\ ReturnedPlan.actions[1].args = parse_args(form.rest)

\* no line of the response matches either line pattern
NoLineMatch ==
    \A k \in 1..Len(lines(response.v)) : LineCandidates(Trim(lines(response.v)[k])) = <<>>

\* the response holds no URL and no shell keyword
NoUrlNoShellKeyword ==
    /\ \A i \in 1..Len(response.v) : ~UrlAt(response.v, i).some
    /\ \A k \in 1..Len(shell_indicators) :
         ~Contains(to_lowercase(response.v), shell_indicators[k])

\* digits joined by arithmetic operators, spaces allowed around them
IsArithmetic(e) ==
    /\ e # <<>>
    /\ SkipWhile(e, 1, Digits) > 1
    /\ Len(e) + 1 \in Range(ChainEnds(e, SkipWhile(e, 1, Digits)))

\* where the response holds an arithmetic sub-expression: its first
\* position and the position after its last
ArithmeticSpans ==
    {span \in (1..Len(response.v)) \X (2..(Len(response.v) + 1)) :
        span[1] < span[2] /\ IsArithmetic(SubSeq(response.v, span[1], span[2] - 1))}

\* those of them that begin and end at a word boundary
DelimitedSpans ==
    {span \in ArithmeticSpans :
        WordBoundary(response.v, span[1]) /\ WordBoundary(response.v, span[2])}

\* parse_llm_response returned exactly one action and it is a math action
OneMathAction ==
    /\ PlanReturned
    /\ Len(ReturnedPlan.actions) = 1
    /\ ReturnedPlan.actions[1].tool = S_math
    /\ ReturnedPlan.actions[1].args # <<>>

C18_ArgsNonEmpty ==
    PlanReturned =>
        \A k \in 1..Len(ReturnedPlan.actions) : ReturnedPlan.actions[k].args # <<>>

\* C18 witness: the natural-language tier returned a plan of two actions
C18_Witness ==
    /\ PlanReturned
    /\ parse_out.v.tried[Len(parse_out.v.tried)] = "parse_natural_language"
    /\ Len(ReturnedPlan.actions) = 2
    /\ Len(ReturnedPlan.actions[1].args) = 2

\* C19: every action of every plan parse_llm_response returns has a
\* priority from 1 to 10.
C19_PriorityInRange ==
    PlanReturned =>
        \A k \in 1..Len(ReturnedPlan.actions) : ReturnedPlan.actions[k].priority \in 1..10

----------------------------------------------------------------------------
(* The agent memory (agent/src/memory.rs) *)

\* most capacity the history is configured with, most messages added, most
\* calls made on the session store, and most messages added to a memory
\* that is exported
MaxCapacity == 3
MaxAdded == 5
MaxCalls == 4
MaxExported == 1

\* Message::new(role, content), memory.rs:14-24, the clock reading
\* timestamp seconds
Message_new(role, content, timestamp) ==
    [role |-> role, content |-> content, timestamp |-> timestamp, metadata |-> EmptyMap]

\* AgentMemory::new, memory.rs:41-48
AgentMemory_new ==
    [session_data |-> EmptyMap, conversation_history |-> <<>>,
     tool_results_cache |-> EmptyMap, max_history_size |-> DefaultMaxHistorySize]

\* the AgentMemory the variables hold
Self ==
    [session_data |-> session_data, conversation_history |-> conversation_history,
     tool_results_cache |-> tool_results_cache, max_history_size |-> max_history_size]

\* the three stores of an AgentMemory
Stores(memory) ==
    <<memory.session_data, memory.conversation_history, memory.tool_results_cache>>

----------------------------------------------------------------------------
(* Memory: serde_json::to_string_pretty.  A struct is written as an object *)
(* of its fields in declaration order, a HashMap as an object of its       *)
(* entries in iteration order, a Vec as an array; members and elements     *)
(* stand on lines of their own, indented by two spaces a level.            *)

\* the decimal digits of n
RECURSIVE Decimal(_)
Decimal(n) ==
    IF n < 10 THEN <<<<"0", "1", "2", "3", "4", "5", "6", "7", "8", "9">>[n + 1]>>
    ELSE Decimal(n \div 10) \o <<<<"0", "1", "2", "3", "4", "5", "6", "7", "8", "9">>[(n % 10) + 1]>>

\* the characters one character of a string is written as
Escaped(c) ==
    IF c = "\"" THEN <<"\\", "\"">>
    ELSE IF c = "\\" THEN <<"\\", "\\">>
    ELSE IF c = "\n" THEN <<"\\", "n">>
    ELSE IF c = "\t" THEN <<"\\", "t">>
    ELSE IF c = "\r" THEN <<"\\", "r">>
    ELSE <<c>>

RECURSIVE Escape(_)
Escape(s) == IF s = <<>> THEN <<>> ELSE Escaped(Head(s)) \o Escape(Tail(s))

\* a string, written
Quoted(s) == <<"\"">> \o Escape(s) \o <<"\"">>

Indent(level) == [i \in 1..(2 * level) |-> " "]

RECURSIVE to_string_pretty(_, _), PrettyItems(_, _, _), PrettyMembers(_, _, _)

\* the text of a value that stands at the given level of nesting
to_string_pretty(v, level) ==
    IF v.t = "str" THEN Quoted(v.s)
    ELSE IF v.t = "num" THEN Decimal(v.n)
    ELSE IF v.t = "arr"
         THEN IF v.items = <<>> THEN <<"[", "]">>
              ELSE <<"[">> \o PrettyItems(v.items, 1, level + 1)
                     \o <<"\n">> \o Indent(level) \o <<"]">>
    ELSE IF v.fields = <<>> THEN <<"{", "}">>
         ELSE <<"{">> \o PrettyMembers(v.fields, 1, level + 1)
                \o <<"\n">> \o Indent(level) \o <<"}">>

\* the elements of an array from the k-th on
PrettyItems(items, k, level) ==
    IF k > Len(items) THEN <<>>
    ELSE (IF k > 1 THEN <<",">> ELSE <<>>) \o <<"\n">> \o Indent(level)
           \o to_string_pretty(items[k], level) \o PrettyItems(items, k + 1, level)

\* the members of an object from the k-th on
PrettyMembers(fields, k, level) ==
    IF k > Len(fields) THEN <<>>
    ELSE (IF k > 1 THEN <<",">> ELSE <<>>) \o <<"\n">> \o Indent(level)
           \o Quoted(fields[k].k) \o <<":", " ">>
           \o to_string_pretty(fields[k].v, level) \o PrettyMembers(fields, k + 1, level)

\* Serialize for HashMap<String, String>: the values it may be written as
HashMap_to_values(map) ==
    {[t |-> "obj",
      fields |-> [i \in 1..Len(o) |-> [k |-> o[i], v |-> [t |-> "str", s |-> map[o[i]]]]]] :
        o \in HashMap_iter(map)}

\* Serialize for Message, memory.rs:5-11
Message_to_values(message) ==
    {[t |-> "obj",
      fields |-> <<[k |-> <<"r", "o", "l", "e">>, v |-> [t |-> "str", s |-> message.role]],
                   [k |-> <<"c", "o", "n", "t", "e", "n", "t">>, v |-> [t |-> "str", s |-> message.content]],
                   [k |-> <<"t", "i", "m", "e", "s", "t", "a", "m", "p">>, v |-> [t |-> "num", n |-> message.timestamp]],
                   [k |-> <<"m", "e", "t", "a", "d", "a", "t", "a">>, v |-> metadata]>>] :
        metadata \in HashMap_to_values(message.metadata)}

\* Serialize for Vec<Message>
Messages_to_values(messages) ==
    {[t |-> "arr", items |-> items] :
        items \in {f \in [1..Len(messages) ->
                            UNION {Message_to_values(messages[i]) : i \in 1..Len(messages)}] :
                     \A i \in 1..Len(messages) : f[i] \in Message_to_values(messages[i])}}

\* Serialize for MemoryExport, memory.rs:162-167
MemoryExport_to_values(memory) ==
    {[t |-> "obj",
      fields |-> <<[k |-> <<"s", "e", "s", "s", "i", "o", "n", "_", "d", "a", "t", "a">>, v |-> session],
                   [k |-> <<"c", "o", "n", "v", "e", "r", "s", "a", "t", "i", "o", "n", "_", "h", "i", "s", "t", "o", "r", "y">>, v |-> history],
                   [k |-> <<"t", "o", "o", "l", "_", "r", "e", "s", "u", "l", "t", "s", "_", "c", "a", "c", "h", "e">>, v |-> cache]>>] :
        session \in HashMap_to_values(memory.session_data),
        history \in Messages_to_values(memory.conversation_history),
        cache \in HashMap_to_values(memory.tool_results_cache)}

\* export_to_json writing the session data in the place of the tool cache
export_to_json_session_for_cache(memory) ==
    {to_string_pretty(v, 0) :
        v \in MemoryExport_to_values([memory EXCEPT !.tool_results_cache = memory.session_data])}

\* AgentMemory::export_to_json, memory.rs:161-176: the texts it may return
export_to_json(memory) ==
    {to_string_pretty(v, 0) : v \in MemoryExport_to_values(memory)}

----------------------------------------------------------------------------
(* Memory: the structs serde decodes (memory.rs:5-11, 179-184) *)

\* the value given last for key k among the members of an object
LastValue(fields, k) ==
    fields[CHOOSE i \in 1..Len(fields) :
             /\ fields[i].k = k
             /\ \A j \in (i + 1)..Len(fields) : fields[j].k # k].v

\* Deserialize for HashMap<String, String>: a repeated key keeps the value
\* given last
HashMap_from_value(v) ==
    IF v.t = "obj" /\ \A i \in 1..Len(v.fields) : v.fields[i].v.t = "str"
    THEN Some([k \in {v.fields[i].k : i \in 1..Len(v.fields)} |-> LastValue(v.fields, k).s])
    ELSE NoneV

Message_from_fields(role, content, timestamp, metadata) ==
    IF /\ Len(role) = 1 /\ role[1].t = "str"
       /\ Len(content) = 1 /\ content[1].t = "str"
       /\ Len(timestamp) = 1 /\ timestamp[1].t = "num"
       /\ Len(metadata) = 1 /\ HashMap_from_value(metadata[1]).some
    THEN Some([role |-> role[1].s, content |-> content[1].s,
               timestamp |-> timestamp[1].n,
               metadata |-> HashMap_from_value(metadata[1]).v])
    ELSE NoneV

\* Deserialize for Message, memory.rs:5-11
Message_from_value(v) ==
    IF v.t = "obj"
    THEN Message_from_fields(Values(Members(v, <<"r", "o", "l", "e">>)), Values(Members(v, <<"c", "o", "n", "t", "e", "n", "t">>)),
            Values(Members(v, <<"t", "i", "m", "e", "s", "t", "a", "m", "p">>)), Values(Members(v, <<"m", "e", "t", "a", "d", "a", "t", "a">>)))
    ELSE IF v.t = "arr" /\ Len(v.items) <= 4
    THEN Message_from_fields(ItemAt(v.items, 1), ItemAt(v.items, 2),
            ItemAt(v.items, 3), ItemAt(v.items, 4))
    ELSE NoneV

\* Deserialize for Vec<Message>
Messages_from_value(v) ==
    IF v.t = "arr" /\ \A i \in 1..Len(v.items) : Message_from_value(v.items[i]).some
    THEN Some([i \in 1..Len(v.items) |-> Message_from_value(v.items[i]).v])
    ELSE NoneV

MemoryImport_from_fields(session_data_, conversation_history_, tool_results_cache_) ==
    IF /\ Len(session_data_) = 1 /\ HashMap_from_value(session_data_[1]).some
       /\ Len(conversation_history_) = 1 /\ Messages_from_value(conversation_history_[1]).some
       /\ Len(tool_results_cache_) = 1 /\ HashMap_from_value(tool_results_cache_[1]).some
    THEN Some([session_data |-> HashMap_from_value(session_data_[1]).v,
               conversation_history |-> Messages_from_value(conversation_history_[1]).v,
               tool_results_cache |-> HashMap_from_value(tool_results_cache_[1]).v])
    ELSE NoneV

\* Deserialize for MemoryImport, memory.rs:179-184
MemoryImport_from_value(v) ==
    IF v.t = "obj"
    THEN MemoryImport_from_fields(Values(Members(v, <<"s", "e", "s", "s", "i", "o", "n", "_", "d", "a", "t", "a">>)),
            Values(Members(v, <<"c", "o", "n", "v", "e", "r", "s", "a", "t", "i", "o", "n", "_", "h", "i", "s", "t", "o", "r", "y">>)),
            Values(Members(v, <<"t", "o", "o", "l", "_", "r", "e", "s", "u", "l", "t", "s", "_", "c", "a", "c", "h", "e">>)))
    ELSE IF v.t = "arr" /\ Len(v.items) <= 3
    THEN MemoryImport_from_fields(ItemAt(v.items, 1), ItemAt(v.items, 2), ItemAt(v.items, 3))
    ELSE NoneV

\* serde_json::from_str::<MemoryImport>, memory.rs:186
MemoryImport_from_str(json_data) ==
    LET v == from_str(json_data)
    IN  IF v.some THEN MemoryImport_from_value(v.v) ELSE NoneV

\* import_from_json taking over each store whose member decodes, whatever
\* becomes of the others
import_from_json_store_by_store(memory, json_data) ==
    LET v == from_str(json_data)
        session == IF v.some /\ v.v.t = "obj" THEN Values(Members(v.v, <<"s", "e", "s", "s", "i", "o", "n", "_", "d", "a", "t", "a">>)) ELSE <<>>
        history == IF v.some /\ v.v.t = "obj" THEN Values(Members(v.v, <<"c", "o", "n", "v", "e", "r", "s", "a", "t", "i", "o", "n", "_", "h", "i", "s", "t", "o", "r", "y">>)) ELSE <<>>
        cache == IF v.some /\ v.v.t = "obj" THEN Values(Members(v.v, <<"t", "o", "o", "l", "_", "r", "e", "s", "u", "l", "t", "s", "_", "c", "a", "c", "h", "e">>)) ELSE <<>>
    IN  [memory |->
           [session_data |->
              IF Len(session) = 1 /\ HashMap_from_value(session[1]).some
              THEN HashMap_from_value(session[1]).v ELSE memory.session_data,
            conversation_history |->
              IF Len(history) = 1 /\ Messages_from_value(history[1]).some
              THEN Messages_from_value(history[1]).v ELSE memory.conversation_history,
            tool_results_cache |->
              IF Len(cache) = 1 /\ HashMap_from_value(cache[1]).some
              THEN HashMap_from_value(cache[1]).v ELSE memory.tool_results_cache,
            max_history_size |-> memory.max_history_size],
         result |-> IF MemoryImport_from_str(json_data).some THEN Ok("()")
                    ELSE Err(<<"serde_json::Error">>)]

\* AgentMemory::import_from_json, memory.rs:178-193: the memory after it
\* and what it returns
import_from_json(memory, json_data) ==
    LET import == MemoryImport_from_str(json_data)
    IN  IF ~import.some
        THEN [memory |-> memory, result |-> Err(<<"serde_json::Error">>)]
        ELSE [memory |->
                [session_data |-> import.v.session_data,
                 conversation_history |-> import.v.conversation_history,
                 tool_results_cache |-> import.v.tool_results_cache,
                 max_history_size |-> memory.max_history_size],
              result |-> Ok("()")]

----------------------------------------------------------------------------
(* Memory: the operations *)

\* the keys and values the session store is called with
SessionKeys == {<<"n", "a", "m", "e">>, <<"t", "a", "s", "k">>}
SessionValues == {<<"A", "l", "i", "c", "e">>, <<"a", "\"", "\\", "\n">>}

\* the hash and the results cache_tool_result is called with
CachedResults == {<<"4">>, <<"\"", "5", "\"">>}

\* the messages add_to_history is called with: the n-th of them numbered
\* n - 1, as in memory.rs:239-241, from either party, the clock one second
\* on at each
NextMessages ==
    {Message_new(role, <<"M", "e", "s", "s", "a", "g", "e", " ">> \o Decimal(Len(added)), 1700000000 + Len(added)) :
        role \in {<<"u", "s", "e", "r">>, <<"a", "s", "s", "i", "s", "t", "a", "n", "t">>}}

\* those of the user
UserMessages == {message \in NextMessages : message.role = <<"u", "s", "e", "r">>}

\* the texts import_from_json is called with: a memory whose messages
\* carry metadata, an empty memory, a text without the tool cache, a text
\* whose message lacks fields, and a text that is not JSON
Payloads ==
    {<<"{", "\"", "s", "e", "s", "s", "i", "o", "n", "_", "d", "a", "t", "a", "\"", ":", "{", "\"", "n", "a", "m", "e", "\"", ":", "\"", "B", "o", "b", "\"", "}", ",", "\"", "c", "o", "n", "v", "e", "r", "s", "a", "t", "i", "o", "n", "_", "h", "i", "s", "t", "o", "r", "y", "\"", ":", "[", "{", "\"", "r", "o", "l", "e", "\"", ":", "\"", "u", "s", "e", "r", "\"", ",", "\"", "c", "o", "n", "t", "e", "n", "t", "\"", ":", "\"", "h", "i", "\"", ",", "\"", "t", "i", "m", "e", "s", "t", "a", "m", "p", "\"", ":", "7", ",", "\"", "m", "e", "t", "a", "d", "a", "t", "a", "\"", ":", "{", "\"", "l", "a", "n", "g", "\"", ":", "\"", "e", "n", "\"", "}", "}", ",", "{", "\"", "r", "o", "l", "e", "\"", ":", "\"", "a", "s", "s", "i", "s", "t", "a", "n", "t", "\"", ",", "\"", "c", "o", "n", "t", "e", "n", "t", "\"", ":", "\"", "a", "\\", "\"", "b", "\"", ",", "\"", "t", "i", "m", "e", "s", "t", "a", "m", "p", "\"", ":", "8", ",", "\"", "m", "e", "t", "a", "d", "a", "t", "a", "\"", ":", "{", "}", "}", "]", ",", "\"", "t", "o", "o", "l", "_", "r", "e", "s", "u", "l", "t", "s", "_", "c", "a", "c", "h", "e", "\"", ":", "{", "\"", "m", "a", "t", "h", "_", "1", "c", "\"", ":", "\"", "4", "\"", "}", "}">>,
     <<"{", "\"", "s", "e", "s", "s", "i", "o", "n", "_", "d", "a", "t", "a", "\"", ":", "{", "}", ",", "\"", "c", "o", "n", "v", "e", "r", "s", "a", "t", "i", "o", "n", "_", "h", "i", "s", "t", "o", "r", "y", "\"", ":", "[", "]", ",", "\"", "t", "o", "o", "l", "_", "r", "e", "s", "u", "l", "t", "s", "_", "c", "a", "c", "h", "e", "\"", ":", "{", "}", "}">>,
     <<"{", "\"", "s", "e", "s", "s", "i", "o", "n", "_", "d", "a", "t", "a", "\"", ":", "{", "\"", "n", "a", "m", "e", "\"", ":", "\"", "B", "o", "b", "\"", "}", ",", "\"", "c", "o", "n", "v", "e", "r", "s", "a", "t", "i", "o", "n", "_", "h", "i", "s", "t", "o", "r", "y", "\"", ":", "[", "]", "}">>,
     <<"{", "\"", "s", "e", "s", "s", "i", "o", "n", "_", "d", "a", "t", "a", "\"", ":", "{", "\"", "n", "a", "m", "e", "\"", ":", "\"", "B", "o", "b", "\"", "}", ",", "\"", "c", "o", "n", "v", "e", "r", "s", "a", "t", "i", "o", "n", "_", "h", "i", "s", "t", "o", "r", "y", "\"", ":", "[", "{", "\"", "r", "o", "l", "e", "\"", ":", "\"", "u", "s", "e", "r", "\"", "}", "]", ",", "\"", "t", "o", "o", "l", "_", "r", "e", "s", "u", "l", "t", "s", "_", "c", "a", "c", "h", "e", "\"", ":", "{", "}", "}">>,
     <<"n", "o", " ", "m", "e", "m", "o", "r", "y">>}

\* store keeping the value a key already has
store_unless_present(session, key, value) ==
    IF key \in DOMAIN session THEN session ELSE HashMap_insert(session, key, value)

\* AgentMemory::store, memory.rs:51-53: the session data after it
store(session, key, value) == HashMap_insert(session, key, value)

\* the call of AgentMemory::store
Store(key, value) ==
    /\ session_data' = store(session_data, key, value)
    /\ last_call' = [op |-> "store", key |-> key, value |-> value]
    /\ UNCHANGED <<conversation_history, max_history_size, added, tool_results_cache,
                   dvars, pvars, avars>>

\* the call of AgentMemory::retrieve, memory.rs:55-57
Retrieve(key) ==
    /\ last_call' = [op |-> "retrieve", key |-> key,
                     returned |-> HashMap_get(session_data, key)]
    /\ UNCHANGED <<session_data, conversation_history, max_history_size, added,
                   tool_results_cache, dvars, pvars, avars>>

\* the call of AgentMemory::remove, memory.rs:59-61
Remove(key) ==
    /\ session_data' = HashMap_remove(session_data, key)
    /\ last_call' = [op |-> "remove", key |-> key,
                     returned |-> HashMap_get(session_data, key)]
    /\ UNCHANGED <<conversation_history, max_history_size, added, tool_results_cache,
                   dvars, pvars, avars>>

\* the call of AgentMemory::clear_session, memory.rs:63-65
ClearSession ==
    /\ session_data' = EmptyMap
    /\ last_call' = [op |-> "clear_session"]
    /\ UNCHANGED <<conversation_history, max_history_size, added, tool_results_cache,
                   dvars, pvars, avars>>

\* add_to_history dropping the message just pushed when the history is
\* over its size
add_to_history_newest_dropped(history, max_size, message) ==
    IF Len(Append(history, message)) > max_size THEN history
    ELSE Append(history, message)

\* AgentMemory::add_to_history, memory.rs:68-75: the history after it
add_to_history(history, max_size, message) ==
    IF Len(Append(history, message)) > max_size THEN Tail(Append(history, message))
    ELSE Append(history, message)

\* the call of AgentMemory::add_to_history
AddToHistory(message) ==
    /\ Len(added) < MaxAdded
    /\ conversation_history' =
         add_to_history(conversation_history, max_history_size, message)
    /\ added' = Append(added, message)
    /\ last_call' = [op |-> "add_to_history"]
    /\ UNCHANGED <<max_history_size, session_data, tool_results_cache, dvars, pvars, avars>>

\* `memory.max_history_size = 3`, memory.rs:236: the capacity is
\* configured once, on the empty memory
SetMaxHistorySize(size) ==
    /\ added = <<>>
    /\ conversation_history = <<>>
    /\ max_history_size = DefaultMaxHistorySize
    /\ max_history_size' = size
    /\ last_call' = [op |-> "max_history_size"]
    /\ UNCHANGED <<conversation_history, added, session_data, tool_results_cache, calls,
                   dvars, pvars, avars>>

\* the call of AgentMemory::clear_history, memory.rs:90-92
ClearHistory ==
    /\ conversation_history' = <<>>
    /\ last_call' = [op |-> "clear_history"]
    /\ UNCHANGED <<max_history_size, added, session_data, tool_results_cache,
                   dvars, pvars, avars>>

\* AgentMemory::cache_tool_result, memory.rs:95-97, the cache emptied
\* before the insert
cache_tool_result_cleared_first(cache, tool_call_hash, result) ==
    HashMap_insert(EmptyMap, tool_call_hash, result)

\* AgentMemory::cache_tool_result, memory.rs:95-97
cache_tool_result(cache, tool_call_hash, result) ==
    HashMap_insert(cache, tool_call_hash, result)

\* the call of AgentMemory::cache_tool_result, memory.rs:95-97
CacheToolResult(tool_call_hash, result) ==
    /\ tool_results_cache' =
         cache_tool_result(tool_results_cache, tool_call_hash, result)
    /\ last_call' = [op |-> "cache_tool_result", tool_call_hash |-> tool_call_hash,
                     result |-> result]
    /\ UNCHANGED <<conversation_history, max_history_size, added, session_data,
                   dvars, pvars, avars>>

\* the call of AgentMemory::get_cached_tool_result, memory.rs:99-101
GetCachedToolResult(tool_call_hash) ==
    /\ last_call' = [op |-> "get_cached_tool_result",
                     tool_call_hash |-> tool_call_hash,
                     returned |-> HashMap_get(tool_results_cache, tool_call_hash)]
    /\ UNCHANGED <<conversation_history, max_history_size, added, session_data,
                   tool_results_cache, dvars, pvars, avars>>

\* the call of AgentMemory::clear_tool_cache, memory.rs:103-105
ClearToolCache ==
    /\ tool_results_cache' = EmptyMap
    /\ last_call' = [op |-> "clear_tool_cache"]
    /\ UNCHANGED <<conversation_history, max_history_size, added, session_data,
                   dvars, pvars, avars>>

\* the call of AgentMemory::export_to_json
ExportToJson ==
    /\ \E text \in export_to_json(Self) :
         last_call' = [op |-> "export_to_json", returned |-> Ok(text)]
    /\ UNCHANGED <<conversation_history, max_history_size, added, session_data,
                   tool_results_cache, calls, dvars, pvars, avars>>

\* the call of AgentMemory::import_from_json
ImportFromJson(json_data) ==
    LET out == import_from_json(Self, json_data)
    IN  /\ session_data' = out.memory.session_data
        /\ conversation_history' = out.memory.conversation_history
        /\ tool_results_cache' = out.memory.tool_results_cache
        /\ last_call' = [op |-> "import_from_json", json_data |-> json_data,
                         returned |-> out.result]
        /\ UNCHANGED <<max_history_size, added, dvars, pvars, avars>>

\* import_from_json called on a second memory, AgentMemory::new(), with
\* the text export_to_json has just returned
ImportFresh ==
    /\ last_call.op = "export_to_json"
    /\ LET out == import_from_json(AgentMemory_new, last_call.returned.value)
       IN  last_call' = [op |-> "import_from_json of a new memory",
                         json_data |-> last_call.returned.value,
                         after |-> out.memory, returned |-> out.result]
    /\ UNCHANGED <<conversation_history, max_history_size, added, session_data,
                   tool_results_cache, calls, dvars, pvars, avars>>

MemoryNext ==
    \/ \E size \in 0..MaxCapacity : SetMaxHistorySize(size)
    \/ \E message \in NextMessages : AddToHistory(message) /\ UNCHANGED calls

SpecMemory == DInit /\ [][MemoryNext]_vars

\* the session store, every call made on it kept in calls
Logged ==
    /\ Len(calls) < MaxCalls
    /\ calls' = Append(calls, last_call')

SessionNext ==
    \/ \E key \in SessionKeys, value \in SessionValues : Store(key, value) /\ Logged
    \/ \E key \in SessionKeys : Retrieve(key) /\ Logged
    \/ \E key \in SessionKeys : Remove(key) /\ Logged
    \/ ClearSession /\ Logged

SpecSession == DInit /\ [][SessionNext]_vars

\* the memory saved and restored
SnapshotNext ==
    \/ \E message \in UserMessages : Len(added) < MaxExported /\ AddToHistory(message) /\ UNCHANGED calls
    \/ \E key \in SessionKeys, value \in SessionValues : Store(key, value) /\ UNCHANGED calls
    \/ \E result \in CachedResults : CacheToolResult(<<"m", "a", "t", "h", "_", "1", "c">>, result) /\ UNCHANGED calls
    \/ \E json_data \in Payloads : ImportFromJson(json_data) /\ UNCHANGED calls
    \/ ExportToJson
    \/ ImportFresh

SpecSnapshot == DInit /\ [][SnapshotNext]_vars

\* the memory of some capacity, filled, cleared and imported into
ImportNext ==
    \/ \E size \in 0..MaxCapacity : SetMaxHistorySize(size)
    \/ \E message \in UserMessages : Len(added) < MaxExported /\ AddToHistory(message) /\ UNCHANGED calls
    \/ ClearHistory /\ UNCHANGED calls
    \/ Store(<<"n", "a", "m", "e">>, <<"A", "l", "i", "c", "e">>) /\ UNCHANGED calls
    \/ Remove(<<"n", "a", "m", "e">>) /\ UNCHANGED calls
    \/ ClearSession /\ UNCHANGED calls
    \/ CacheToolResult(<<"m", "a", "t", "h", "_", "1", "c">>, <<"4">>) /\ UNCHANGED calls
    \/ ClearToolCache /\ UNCHANGED calls
    \/ \E json_data \in Payloads : ImportFromJson(json_data) /\ UNCHANGED calls

SpecImport == DInit /\ [][ImportNext]_vars

----------------------------------------------------------------------------
(* Claims about the agent memory *)

\* C20: after N add_to_history calls on an empty memory of capacity K,
\* K < N, the history holds exactly K messages: the last K added, in the
\* order they were added; the N - K oldest are absent.
C20_HistoryKeepsLastK ==
    max_history_size < Len(added) =>
        /\ Len(conversation_history) = max_history_size
        /\ conversation_history
             = SubSeq(added, Len(added) - max_history_size + 1, Len(added))
        /\ \A n \in 1..(Len(added) - max_history_size) :
             \A k \in 1..Len(conversation_history) : conversation_history[k] # added[n]

\* C20 witness: capacity 3 and messages 0..4 leave messages 2, 3, 4
C20_Witness ==
    /\ max_history_size = 3
    /\ Len(added) = 5
    /\ [k \in 1..Len(conversation_history) |-> conversation_history[k].content]
         = <<<<"M", "e", "s", "s", "a", "g", "e", " ", "2">>, <<"M", "e", "s", "s", "a", "g", "e", " ", "3">>, <<"M", "e", "s", "s", "a", "g", "e", " ", "4">>>>

\* C21: in every state the memory operations reach, import_from_json with
\* any payload among them, the history holds at most max_history_size
\* messages.
C21_HistoryWithinBound == Len(conversation_history) <= max_history_size

\* C22: import_from_json of the text export_to_json returned for a memory,
\* called on a new memory, succeeds and leaves it with the session, the
\* history and the tool cache of the exported one.
C22_ExportImportRoundTrip ==
    last_call.op = "import_from_json of a new memory" =>
        /\ last_call.returned.ok
        /\ Stores(last_call.after) = Stores(Self)

\* C22 witness: a memory restored whose session value holds a quote, a
\* backslash and a newline, whose history holds two messages, one of them
\* with metadata, and whose tool cache holds a quoted result
C22_Witness ==
    /\ last_call.op = "import_from_json of a new memory"
    /\ HashMap_get(session_data, <<"n", "a", "m", "e">>) = Some(<<"a", "\"", "\\", "\n">>)
    /\ Len(conversation_history) = 2
    /\ conversation_history[1].metadata # EmptyMap
    /\ HashMap_get(tool_results_cache, <<"m", "a", "t", "h", "_", "1", "c">>) = Some(<<"\"", "5", "\"">>)
    /\ last_call.after.conversation_history = conversation_history

\* C23: import_from_json of a text that does not decode into the three
\* fields returns an error and leaves session, history and tool cache as
\* they were; of a text that decodes, it returns Ok and the three stores
\* are those of the text.
C23_ImportAllOrNothing ==
    [][last_call'.op = "import_from_json" =>
         LET import == MemoryImport_from_str(last_call'.json_data)
         IN  IF import.some
             THEN /\ last_call'.returned.ok
                  /\ Stores(Self)' = Stores(import.v)
             ELSE /\ ~last_call'.returned.ok
                  /\ Stores(Self)' = Stores(Self)]_vars

\* C23 witness: a text whose session data decode and whose message does
\* not, imported into a memory that holds a session value, a message and a
\* cached result
C23_Witness ==
    /\ last_call.op = "import_from_json"
    /\ ~last_call.returned.ok
    /\ from_str(last_call.json_data).some
    /\ HashMap_get(session_data, <<"n", "a", "m", "e">>) = Some(<<"A", "l", "i", "c", "e">>)
    /\ Len(conversation_history) = 1
    /\ tool_results_cache # EmptyMap

\* what retrieve(key) is to return after the calls of a log: the value of
\* the last store(key, v) that no remove(key) and no clear_session follows
MostRecentStore(log, key) ==
    LET live == {i \in 1..Len(log) :
                   /\ log[i].op = "store" /\ log[i].key = key
                   /\ \A j \in (i + 1)..Len(log) :
                        /\ ~(log[j].op = "store" /\ log[j].key = key)
                        /\ ~(log[j].op = "remove" /\ log[j].key = key)
                        /\ log[j].op # "clear_session"}
    IN  IF live = {} THEN NoneV ELSE Some(log[CHOOSE i \in live : TRUE].value)

\* C30: after any sequence of store, remove and clear_session calls,
\* retrieve(k) returns the value of the most recent store(k, v) that no
\* remove(k) and no clear_session follows, None if there is none; remove(k)
\* returns the value it removed.
C30_SessionOverwriteOnStore ==
    /\ \A key \in SessionKeys :
         HashMap_get(session_data, key) = MostRecentStore(calls, key)
    /\ \A n \in 1..Len(calls) :
         calls[n].op \in {"retrieve", "remove"} =>
            calls[n].returned = MostRecentStore(SubSeq(calls, 1, n - 1), calls[n].key)

\* C30 witness: a key stored twice, removed (the call returning the second
\* value) and then retrieved
C30_Witness ==
    /\ Len(calls) = 4
    /\ calls[1].op = "store" /\ calls[2].op = "store"
    /\ calls[1].key = calls[2].key /\ calls[1].value # calls[2].value
    /\ calls[3].op = "remove" /\ calls[3].key = calls[1].key
    /\ calls[3].returned = Some(calls[2].value)
    /\ calls[4].op = "retrieve" /\ calls[4].key = calls[1].key
    /\ calls[4].returned = NoneV

----------------------------------------------------------------------------
(* ActionPlan::cache_key (planner.rs:47-57).  DefaultHasher::new() is a     *)
(* SipHash with fixed keys: what finish returns is a function of the bytes  *)
(* written to it and of nothing else.  A 16-bit polynomial checksum over    *)
(* the characters' places in Symbols stands for it.                         *)

Symbols ==
    LowerCase \o <<"0", "1", "2", "3", "4", "5", "6", "7", "8", "9", "+", "-", "*", "/", ".", ":", "_", " ">>

\* Hasher::write_u8
write_u8(state, byte) == (state * 31 + byte) % 65536

\* Hasher::write of the bytes of a string
RECURSIVE write(_, _)
write(state, s) ==
    IF s = <<>> THEN state
    ELSE write(write_u8(state, CHOOSE k \in 1..Len(Symbols) : Symbols[k] = Head(s)), Tail(s))

\* Hash for str: its bytes, then 0xff
hash_str(state, s) == write_u8(write(state, s), 255)

\* `for arg in &self.args { arg.hash(&mut hasher) }`, planner.rs:53-55
RECURSIVE hash_args(_, _)
hash_args(state, args) ==
    IF args = <<>> THEN state ELSE hash_args(hash_str(state, Head(args)), Tail(args))

\* {:x}
RECURSIVE LowerHex(_)
LowerHex(n) ==
    IF n < 16 THEN <<<<"0", "1", "2", "3", "4", "5", "6", "7", "8", "9", "a", "b", "c", "d", "e", "f">>[n + 1]>>
    ELSE LowerHex(n \div 16) \o <<<<"0", "1", "2", "3", "4", "5", "6", "7", "8", "9", "a", "b", "c", "d", "e", "f">>[(n % 16) + 1]>>

\* cache_key hashing the priority after the tool and the arguments
cache_key_priority_hashed(action) ==
    action.tool \o <<"_">>
      \o LowerHex(write_u8(hash_args(hash_str(0, action.tool), action.args), action.priority))

\* ActionPlan::cache_key, planner.rs:47-57
cache_key(action) ==
    action.tool \o <<"_">> \o LowerHex(hash_args(hash_str(0, action.tool), action.args))

\* the actions cache_key is called on: two tools, the same characters as
\* one argument and as two, and three settings of context, reasoning and
\* priority
KeyedActions ==
    {[tool |-> tool, args |-> args, context |-> rest[1], reasoning |-> rest[2],
      priority |-> rest[3]] :
        tool \in {S_math, S_fetch},
        args \in {<<<<"2", "+", "2">>>>, <<<<"2">>, <<"+", "2">>>>},
        rest \in {<<NoneV, NoneV, 5>>, <<Some(<<"t", "a", "s", "k", " ", "1">>), Some(<<"s", "u", "m">>), 9>>,
                  <<NoneV, Some(<<"s", "u", "m">>), 1>>}}

\* cache_key called on two actions
CacheKey(a, b) ==
    /\ last_call' = [op |-> "cache_key", actions |-> <<a, b>>,
                     returned |-> <<cache_key(a), cache_key(b)>>]
    /\ UNCHANGED <<conversation_history, max_history_size, added, session_data,
                   tool_results_cache, calls, dvars, pvars, avars>>

CacheKeyNext == \E a \in KeyedActions, b \in KeyedActions : CacheKey(a, b)

SpecCacheKey == DInit /\ [][CacheKeyNext]_vars

\* C24: two actions with the same tool and the same args in the same
\* order have the same cache_key, whatever their context, reasoning and
\* priority.
C24_CacheKeyOfToolAndArgs ==
    (/\ last_call.op = "cache_key"
     /\ last_call.actions[1].tool = last_call.actions[2].tool
     /\ last_call.actions[1].args = last_call.actions[2].args)
        => last_call.returned[1] = last_call.returned[2]

\* C24 witness: two actions of one tool and one argument list that differ
\* in context, reasoning and priority, and their one key
C24_Witness ==
    /\ last_call.op = "cache_key"
    /\ last_call.actions[1].tool = last_call.actions[2].tool
    /\ last_call.actions[1].args = last_call.actions[2].args
    /\ last_call.actions[1].context # last_call.actions[2].context
    /\ last_call.actions[1].reasoning # last_call.actions[2].reasoning
    /\ last_call.actions[1].priority # last_call.actions[2].priority
    /\ last_call.returned[1] = last_call.returned[2]

----------------------------------------------------------------------------
(* Alias resolution over registries of every order *)

\* the names registered: an alias itself, a native tool of it, a tool
\* whose name holds it, a native tool of another alias, and a tool no
\* alias is part of
AliasRegNames == {S_math, S_math_native, <<"f", "a", "s", "t", "m", "a", "t", "h">>, <<"f", "e", "t", "c", "h", "-", "n", "a", "t", "i", "v", "e">>, S_calc}

\* the names resolved: the three aliases, two names that may be
\* registered and one that never is
ResolvedNames == {S_math, S_fetch, S_shell, S_math_native, S_calc, S_nope}

\* the call of ToolDispatcher::map_tool_alias
MapToolAlias(tool_name) ==
    /\ last_call' = [op |-> "map_tool_alias", keys |-> tools, tool_name |-> tool_name,
                     returned |-> map_tool_alias(tools, tool_name)]
    /\ UNCHANGED <<conversation_history, max_history_size, added, session_data,
                   tool_results_cache, calls, dvars, pvars, avars>>

AliasNext ==
    \/ \E name \in AliasRegNames : RegisterTool(name)
    \/ \E tool_name \in ResolvedNames : MapToolAlias(tool_name)

SpecAlias == DInit /\ [][AliasNext]_vars

\* C25: for every registry and every name, a registered name resolves to
\* itself, and what a name resolves to resolves to itself.
C25_ResolutionIdempotent ==
    last_call.op = "map_tool_alias" =>
        /\ contains_key(last_call.keys, last_call.tool_name)
             => last_call.returned = last_call.tool_name
        /\ map_tool_alias(last_call.keys, last_call.returned) = last_call.returned

\* C25 witness: the alias math, itself registered after its native tool,
\* resolved to itself
C25_Witness ==
    /\ last_call.op = "map_tool_alias"
    /\ last_call.tool_name = S_math
    /\ Len(last_call.keys) >= 2
    /\ last_call.keys[1] = S_math_native
    /\ contains_key(last_call.keys, S_math)
    /\ last_call.returned = S_math

\* the registered names that contain the alias
Containing(keys, alias) == {k \in Range(keys) : Contains(k, alias)}

\* those of them that end in "-native"
NativeContaining(keys, alias) == {k \in Containing(keys, alias) : EndsWith(k, S_native)}

\* C26: an alias (math, fetch, shell) resolves to itself if it is
\* registered, else to a registered name that contains it and ends in
\* "-native" if there is one, else to a registered name that contains it
\* if there is one, else to itself; a name that is neither registered nor
\* an alias resolves to itself.
C26_AliasResolution ==
    last_call.op = "map_tool_alias" =>
        IF contains_key(last_call.keys, last_call.tool_name)
        THEN last_call.returned = last_call.tool_name
        ELSE IF last_call.tool_name \notin {S_math, S_fetch, S_shell}
        THEN last_call.returned = last_call.tool_name
        ELSE IF NativeContaining(last_call.keys, last_call.tool_name) # {}
        THEN last_call.returned \in NativeContaining(last_call.keys, last_call.tool_name)
        ELSE IF Containing(last_call.keys, last_call.tool_name) # {}
        THEN last_call.returned \in Containing(last_call.keys, last_call.tool_name)
        ELSE last_call.returned = last_call.tool_name

\* C26 witness: math resolved to math-native in a registry where fastmath
\* comes first and math itself is not registered
C26_Witness ==
    /\ last_call.op = "map_tool_alias"
    /\ last_call.tool_name = S_math
    /\ ~contains_key(last_call.keys, S_math)
    /\ Len(last_call.keys) >= 2
    /\ last_call.keys[1] = <<"f", "a", "s", "t", "m", "a", "t", "h">>
    /\ contains_key(last_call.keys, S_math_native)
    /\ last_call.returned = S_math_native
----------------------------------------------------------------------------
(* The agent: TinyEdgeAgent of lib.rs, which owns one memory, one planner
   and one dispatcher.  load_tools fills the dispatcher from a directory
   and registers with the planner the tools whose probe passed;
   execute_task asks the model, parses its answer with the planner, runs
   the plan on the dispatcher and folds the tool results into one
   response. *)

\* what a health probe of one tool gives: the output of the tool run on a
\* test input, or the error of the run or of its 5 second timeout
ProbeOutcomes ==
    {Ok(<<"2">>), Ok(<<>>), Ok(<<"E", "r", "r", "o", "r", ":", " ", "n", "o", " ", "i", "n", "p", "u", "t">>), Err("probe failed")}

\* ToolDispatcher::health_check, dispatcher.rs:414-461, for one tool
Healthy(outcome) ==
    IF outcome.ok
    THEN outcome.value # <<>> /\ ~Contains(to_lowercase(outcome.value), <<"e", "r", "r", "o", "r">>)
    ELSE FALSE

\* ToolDispatcher::health_check, dispatcher.rs:414-461
health_check(keys, probe) == [name \in Range(keys) |-> Healthy(probe[name])]

\* ToolDispatcher::discover_tools on a directory that exists,
\* dispatcher.rs:200-266: every tool file found is registered; the result
\* is every order the keys of the registry may then be visited in
RECURSIVE discover_tools(_, _)
discover_tools(keys, found) ==
    IF found = {} THEN {keys}
    ELSE LET name == CHOOSE n \in found : TRUE
         IN  UNION {discover_tools(k, found \ {name}) :
                        k \in KeyOrdersAfterInsert(keys, name)}

\* the tools directories load_tools is called with: one that does not
\* exist, or the tool files of one that does
ToolsDirs ==
    {NoneV} \cup {Some(found) : found \in {{}, {S_math_native},
                                           {S_math_native, S_fetch}}}

\* TinyEdgeAgent::new, lib.rs:41-49: the planner is Planner::default()
NewAgent ==
    /\ task.st = "none"
    /\ available_tools' = PlannerToolNames
    /\ model_loaded' = FALSE
    /\ task' = [st |-> "ready"]
    /\ UNCHANGED <<response, parse_pc, parse_out, checked, dvars, mvars>>

\* TinyEdgeAgent::initialize, lib.rs:51-59: load_model succeeds or fails
Initialize ==
    /\ task.st = "ready"
    /\ \E loaded \in BOOLEAN : model_loaded' = (model_loaded \/ loaded)
    /\ UNCHANGED <<task, pvars, dvars, mvars>>

\* TinyEdgeAgent::load_tools, lib.rs:61-97: the tools of the planner
\* after the call, keys being the registry after discovery
load_tools(planner, keys, tools_dir, health) ==
    IF ~tools_dir.some THEN planner
    ELSE {name \in Range(keys) : health[name]}

\* the call of TinyEdgeAgent::load_tools, lib.rs:61-97
LoadTools(tools_dir) ==
    /\ task.st = "ready"
    /\ pc = "idle"
    /\ \E keys \in (IF tools_dir.some THEN discover_tools(tools, tools_dir.v)
                    ELSE {tools}) :
         \E probe \in [Range(keys) -> ProbeOutcomes] :
           LET health == IF tools_dir.some THEN health_check(keys, probe)
                         ELSE [name \in Range(keys) |-> FALSE]
           IN  /\ tools' = keys
               /\ available_tools' =
                    load_tools(available_tools, keys, tools_dir, health)
               /\ last_call' =
                    [op |-> "load_tools", tools_dir |-> tools_dir,
                     healthy |-> {name \in Range(keys) : health[name]},
                     returned |-> Ok(IF tools_dir.some
                                     THEN Cardinality(tools_dir.v) ELSE 0)]
    /\ UNCHANGED <<default_timeout, plan, pc, queue, fut, nproc, wproc, results,
                   plan_error, now, response, parse_pc, parse_out, checked,
                   conversation_history, max_history_size, session_data,
                   tool_results_cache, added, calls, avars>>

\* the tasks execute_task is called with
Tasks == {<<"a", "d", "d", " ", "2", " ", "a", "n", "d", " ", "2">>}

\* what the model answers: text no tier parses, one action, two actions
AgentResponses ==
    { <<"h", "e", "l", "l", "o">>,
      <<"{", "\"", "t", "o", "o", "l", "\"", ":", " ", "\"", "m", "a", "t", "h", "\"", ",", " ", "\"", "a", "r", "g", "s", "\"", ":", " ", "[", "\"", "2", "+", "2", "\"", "]", ",", " ", "\"", "r", "e", "a", "s", "o", "n", "i", "n", "g", "\"", ":", " ", "\"", "a", "d", "d", "\"", "}">>,
      <<"[", "{", "\"", "t", "o", "o", "l", "\"", ":", " ", "\"", "m", "a", "t", "h", "\"", ",", " ", "\"", "a", "r", "g", "s", "\"", ":", " ", "[", "\"", "2", "+", "2", "\"", "]", "}", ",", " ", "{", "\"", "t", "o", "o", "l", "\"", ":", " ", "\"", "f", "e", "t", "c", "h", "\"", ",", " ", "\"", "a", "r", "g", "s", "\"", ":", " ", "[", "\"", "g", "e", "t", "\"", ",", " ", "\"", "u", "\"", "]", "}", "]">> }

\* SuperTinyWasmLLM::generate_response, lib.rs:127-128
Generations == {Err("inference failed")} \cup {Ok(r) : r \in AgentResponses}

\* lib.rs:137-148, success reported as false
TaskResponse_direct_unsuccessful(llm_response) ==
    [success |-> FALSE, result |-> <<[kind |-> "text", text |-> llm_response,
                                      tool_name |-> <<>>, error |-> <<>>]>>,
     reasoning |-> Some(<<"Direct LLM response (no tools executed)">>),
     tools_used |-> <<>>]

\* lib.rs:137-148: the response when no plan could be parsed.  The text
\* of a response is a sequence of segments: a text, the separator "; " or
\* the fragment of a failed tool
TaskResponse_direct(llm_response) ==
    [success |-> TRUE, result |-> <<[kind |-> "text", text |-> llm_response,
                                     tool_name |-> <<>>, error |-> <<>>]>>,
     reasoning |-> Some(<<"Direct LLM response (no tools executed)">>),
     tools_used |-> <<>>]

TextSegment(text) == [kind |-> "text", text |-> text, tool_name |-> <<>>, error |-> <<>>]

\* lib.rs:164-166, push_str("; ")
Separator == [kind |-> "text", text |-> <<";", " ">>, tool_name |-> <<>>, error |-> <<>>]

\* lib.rs:176, format!("Error in {}: {}", result.tool_name, error)
ErrorSegment(tool_name, error) ==
    [kind |-> "Error in {}: {}", text |-> <<>>, tool_name |-> tool_name, error |-> error]

\* String::is_empty of a text made of segments
is_empty(segments) ==
    \A k \in 1..Len(segments) : segments[k].kind = "text" /\ segments[k].text = <<>>

\* lib.rs:170, actions.iter().find(|a| a.tool == result.tool_name)
FindAction(actions, tool_name) ==
    LET hits == {k \in 1..Len(actions) : actions[k].tool = tool_name}
    IN  IF hits = {} THEN NoneV ELSE Some(actions[MinOf(hits)])

\* lib.rs:160-179 with all_successful left as it is on a failure
process_result_failures_ignored(actions, acc, result) ==
    LET used == Append(acc.tools_used, result.tool_name)
        action == FindAction(actions, result.tool_name)
    IN  IF result.success
        THEN [acc EXCEPT
                !.tools_used = used,
                !.final_result =
                    (IF is_empty(@) THEN @ ELSE Append(@, Separator))
                        \o <<TextSegment(result.result)>>,
                !.cache = IF action.some
                          THEN HashMap_insert(@, cache_key(action.v), result.result)
                          ELSE @]
        ELSE [acc EXCEPT
                !.tools_used = used,
                !.final_result =
                    IF result.error.some
                    THEN Append(@, ErrorSegment(result.tool_name, result.error.v))
                    ELSE @]

\* the body of the loop over the results of the plan, lib.rs:160-179
process_result(actions, acc, result) ==
    LET used == Append(acc.tools_used, result.tool_name)
        action == FindAction(actions, result.tool_name)
    IN  IF result.success
        THEN [acc EXCEPT
                !.tools_used = used,
                !.final_result =
                    (IF is_empty(@) THEN @ ELSE Append(@, Separator))
                        \o <<TextSegment(result.result)>>,
                !.cache = IF action.some
                          THEN HashMap_insert(@, cache_key(action.v), result.result)
                          ELSE @]
        ELSE [acc EXCEPT
                !.tools_used = used,
                !.all_successful = FALSE,
                !.final_result =
                    IF result.error.some
                    THEN Append(@, ErrorSegment(result.tool_name, result.error.v))
                    ELSE @]

\* the loop of lib.rs:155-179 over the results of the plan
RECURSIVE process_results(_, _, _)
process_results(actions, tool_results, acc) ==
    IF tool_results = <<>> THEN acc
    ELSE process_results(actions, Tail(tool_results),
                         process_result(actions, acc, Head(tool_results)))

\* Message::new at the time of the call, memory.rs:14-24
MessageNow(role, content) == Message_new(role, content, 1700000000 + now)

\* lib.rs:102-108 with the task stored in the memory before the test of
\* model_loaded
NotInitialized_task_stored(request) ==
    /\ task' = [st |-> "returned", after |-> "start",
                returned |-> Err("Agent not initialized. Call initialize() first.")]
    /\ session_data' =
         store(session_data, <<"c", "u", "r", "r", "e", "n", "t", "_", "t", "a", "s", "k">>, request)
    /\ UNCHANGED <<pvars, conversation_history, max_history_size,
                   tool_results_cache, added, last_call, calls>>

\* the early return of execute_task, lib.rs:102-104
NotInitialized(request) ==
    /\ task' = [st |-> "returned", after |-> "start",
                returned |-> Err("Agent not initialized. Call initialize() first.")]
    /\ UNCHANGED <<pvars, mvars>>

\* TinyEdgeAgent::execute_task up to the call of execute_plan,
\* lib.rs:99-153: the model is asked and its answer is parsed
TaskBegin(request, generated) ==
    /\ task.st = "ready"
    /\ pc = "idle"
    /\ IF ~model_loaded
       THEN NotInitialized(request)
       ELSE LET session == store(session_data, <<"c", "u", "r", "r", "e", "n", "t", "_", "t", "a", "s", "k">>, request)
                user == MessageNow(<<"u", "s", "e", "r">>, request)
                asked == add_to_history(conversation_history, max_history_size, user)
            IN  /\ session_data' = session
                /\ last_call' = [op |-> "execute_task"]
                /\ UNCHANGED <<max_history_size, tool_results_cache, calls,
                               available_tools, checked>>
                /\ IF ~generated.ok
                   THEN /\ conversation_history' = asked
                        /\ added' = Append(added, user)
                        /\ task' = [st |-> "returned", after |-> "generate_response",
                                    returned |-> Err(<<"LLM inference failed: ",
                                                       generated.error>>)]
                        /\ UNCHANGED <<response, parse_pc, parse_out>>
                   ELSE LET assistant == MessageNow(<<"a", "s", "s", "i", "s", "t", "a", "n", "t">>, generated.value)
                            parsed == parse_llm_response(available_tools,
                                                         generated.value)
                        IN  /\ conversation_history' =
                                 add_to_history(asked, max_history_size, assistant)
                            /\ added' = added \o <<user, assistant>>
                            /\ response' = Some(generated.value)
                            /\ parse_out' = Some(parsed)
                            /\ parse_pc' = "parsed"
                            /\ task' =
                                 IF parsed.result.ok
                                 THEN [st |-> "planned",
                                       execution_plan |-> parsed.result.value]
                                 ELSE [st |-> "returned",
                                       after |-> "parse_llm_response",
                                       returned |->
                                         Ok(TaskResponse_direct(generated.value))]
    /\ UNCHANGED <<model_loaded, dvars>>

\* lib.rs:152, the call of ToolDispatcher::execute_plan
TaskDispatch ==
    /\ task.st = "planned"
    /\ StartPlan(task.execution_plan)

\* TinyEdgeAgent::execute_task from the return of execute_plan,
\* lib.rs:152-195
TaskEnd ==
    /\ task.st = "planned"
    /\ pc \in {"returned_ok", "returned_err", "panicked"}
    /\ IF pc = "panicked"
       THEN /\ task' = [st |-> "panicked", after |-> "execute_plan"]
            /\ UNCHANGED mvars
       ELSE IF pc = "returned_err"
       THEN /\ task' = [st |-> "returned", after |-> "execute_plan",
                        returned |-> Err(<<"Tool execution failed: ", plan_error.v>>)]
            /\ UNCHANGED mvars
       ELSE LET done == process_results(plan.actions, results,
                            [final_result |-> <<>>, tools_used |-> <<>>,
                             all_successful |-> TRUE, cache |-> tool_results_cache])
                completed == MessageNow(<<"s", "y", "s", "t", "e", "m">>,
                                 <<"Task completed. Result: ", done.final_result>>)
            IN  /\ tool_results_cache' = done.cache
                /\ session_data' =
                     store(session_data, <<"l", "a", "s", "t", "_", "r", "e", "s", "u", "l", "t">>, done.final_result)
                /\ conversation_history' =
                     add_to_history(conversation_history, max_history_size, completed)
                /\ added' = Append(added, completed)
                /\ last_call' = [op |-> "execute_task"]
                /\ task' =
                     [st |-> "returned", after |-> "execute_plan",
                      returned |->
                        Ok([success |-> done.all_successful,
                            result |-> IF is_empty(done.final_result)
                                       THEN <<TextSegment(<<"N", "o", " ", "r", "e", "s", "u", "l", "t", "s", " ", "g", "e", "n", "e", "r", "a", "t", "e", "d">>)>>
                                       ELSE done.final_result,
                            reasoning |-> IF plan.actions = <<>> THEN NoneV
                                          ELSE Head(plan.actions).reasoning,
                            tools_used |-> done.tools_used])]
                /\ UNCHANGED <<max_history_size, calls>>
    /\ UNCHANGED <<model_loaded, dvars, pvars>>

AgentNext ==
    \/ NewAgent
    \/ Initialize
    \/ \E tools_dir \in ToolsDirs : LoadTools(tools_dir)
    \/ \E request \in Tasks, generated \in Generations : TaskBegin(request, generated)
    \/ TaskDispatch
    \/ DRun
    \/ TaskEnd

SpecAgent == DInit /\ [][AgentNext]_vars

----------------------------------------------------------------------------
(* Claims about the agent *)

\* no tier parses the response the model gave to the task
Unparseable ==
    /\ task.st \in {"planned", "returned"}
    /\ response.some
    /\ \A k \in 1..3 : ~TierResult(TierOrder[k]).ok

\* the plan of the task ran to its end on the dispatcher
Executed == task.st = "returned" /\ task.after = "execute_plan"

\* C27: after every load_tools call the tools the parser validates against
\* are registered in the dispatcher and passed their health probe in that
\* load; no default tool, no unhealthy tool and no tool of an earlier load
\* stays visible.
C27_ValidatedToolsHealthyInThatLoad ==
    last_call.op = "load_tools" =>
        available_tools \subseteq (Range(tools) \cap last_call.healthy)

\* C28: when no tier parses the model's response, execute_task returns a
\* response with success = true, the verbatim model text as its result and
\* no tools used, and no tool is executed for the task.
C28_UnparseableIsDirectAnswer ==
    Unparseable =>
        /\ task.st = "returned"
        /\ task.returned.ok
        /\ task.returned.value.success
        /\ task.returned.value.result = <<TextSegment(response.v)>>
        /\ task.returned.value.tools_used = <<>>
        /\ pc = "idle" /\ fut = <<>> /\ results = <<>>

C28_Witness ==
    /\ Unparseable
    /\ model_loaded
    /\ tools # <<>>
    /\ available_tools # {}
    /\ response.v = <<"h", "e", "l", "l", "o">>
    /\ task.returned.value.result[1].text = <<"h", "e", "l", "l", "o">>

\* C29: when the plan ran with some actions failing and others succeeding,
\* execute_task returns a response with success = false whose result holds
\* the result text of every successful action and the fragment
\* "Error in <tool>: <message>" of every failed one; success is true if
\* and only if every tool result is successful.
C29_PartialFailureSurfaced ==
    Executed =>
        LET succeeded == {k \in 1..Len(results) : results[k].success}
            failed == {k \in 1..Len(results) : ~results[k].success}
            mixed == succeeded # {} /\ (failed # {} \/ pc # "returned_ok")
        IN  /\ mixed =>
                /\ task.returned.ok
                /\ ~task.returned.value.success
                /\ \A k \in succeeded :
                       results[k].result # <<>> =>
                           TextSegment(results[k].result)
                               \in Range(task.returned.value.result)
                /\ \A k \in failed :
                       ErrorSegment(results[k].tool_name, results[k].error.v)
                           \in Range(task.returned.value.result)
            /\ task.returned.ok =>
                   (task.returned.value.success <=> failed = {})

C29_Witness ==
    /\ Executed
    /\ Len(results) = 2
    /\ results[1].success /\ results[1].result = <<"\"", "4", "\"">>
    /\ ~results[2].success
    /\ task.returned.value.result =
         <<TextSegment(<<"\"", "4", "\"">>),
           ErrorSegment(S_fetch, ExecuteFailedError(S_fetch))>>
    /\ ~task.returned.value.success
----------------------------------------------------------------------------
(* The tool-result cache of the memory, every call made on the memory
   kept in calls *)

\* most calls kept in the log of the cache
MaxCacheCalls == 3

\* the hashes results are cached under, and one that is never cached
CachedHashes == {<<"m", "a", "t", "h", "_", "1", "c">>, <<"f", "e", "t", "c", "h", "_", "2", "a">>}
AskedHashes == CachedHashes \cup {<<"s", "h", "e", "l", "l", "_", "9">>}

\* the texts import_from_json is given: a memory with nothing in it, and
\* a text that is no memory
CachePayloads ==
    {<<"{", "\"", "s", "e", "s", "s", "i", "o", "n", "_", "d", "a", "t", "a", "\"", ":", "{", "}", ",", "\"", "c", "o", "n", "v", "e", "r", "s", "a", "t", "i", "o", "n", "_", "h", "i", "s", "t", "o", "r", "y", "\"", ":", "[", "]", ",", "\"", "t", "o", "o", "l", "_", "r", "e", "s", "u", "l", "t", "s", "_", "c", "a", "c", "h", "e", "\"", ":", "{", "}", "}">>,
     <<"n", "o", " ", "m", "e", "m", "o", "r", "y">>}

CacheLogged ==
    /\ Len(calls) < MaxCacheCalls
    /\ calls' = Append(calls, last_call')

CacheNext ==
    \/ \E tool_call_hash \in CachedHashes, result \in CachedResults :
          CacheToolResult(tool_call_hash, result) /\ CacheLogged
    \/ \E tool_call_hash \in AskedHashes :
          GetCachedToolResult(tool_call_hash) /\ CacheLogged
    \/ ClearToolCache /\ CacheLogged
    \/ Store(<<"m", "a", "t", "h", "_", "1", "c">>, <<"A", "l", "i", "c", "e">>) /\ CacheLogged
    \/ \E message \in UserMessages : AddToHistory(message) /\ CacheLogged
    \/ ClearHistory /\ CacheLogged
    \/ \E json_data \in CachePayloads : ImportFromJson(json_data) /\ CacheLogged

SpecCache == DInit /\ [][CacheNext]_vars

\* the call replaces or empties the whole cache
ReplacesCache(call) ==
    \/ call.op = "clear_tool_cache"
    \/ call.op = "import_from_json" /\ call.returned.ok

\* the calls of the log that cached a result under the hash which no later
\* call overwrote, cleared or replaced
LiveCached(log, tool_call_hash) ==
    {i \in 1..Len(log) :
        /\ log[i].op = "cache_tool_result" /\ log[i].tool_call_hash = tool_call_hash
        /\ \A j \in (i + 1)..Len(log) :
             /\ ~(log[j].op = "cache_tool_result"
                    /\ log[j].tool_call_hash = tool_call_hash)
             /\ ~ReplacesCache(log[j])}

\* nothing was cached under the hash since the cache was last emptied,
\* the cache being empty at first and after clear_tool_cache
NeverCached(log, tool_call_hash) ==
    /\ LiveCached(log, tool_call_hash) = {}
    /\ \A j \in 1..Len(log) : ~(log[j].op = "import_from_json" /\ log[j].returned.ok)

\* what the log says get_cached_tool_result gives for the hash
CachedIs(log, tool_call_hash, found) ==
    /\ \A i \in LiveCached(log, tool_call_hash) : found = Some(log[i].result)
    /\ NeverCached(log, tool_call_hash) => found = NoneV

\* C31: the tool-result cache is overwrite-on-store and loses entries only
\* by clear_tool_cache (or a successful import): get_cached_tool_result(k)
\* returns the value most recently cached for k, whatever store, history
\* or cache-insert calls on other keys came after it, and None for a key
\* that was not cached.
C31_CacheOverwriteOnStore ==
    /\ \A tool_call_hash \in AskedHashes :
         CachedIs(calls, tool_call_hash,
                  HashMap_get(tool_results_cache, tool_call_hash))
    /\ \A n \in 1..Len(calls) :
         calls[n].op = "get_cached_tool_result" =>
            CachedIs(SubSeq(calls, 1, n - 1), calls[n].tool_call_hash,
                     calls[n].returned)

\* C31 witness: a result cached, overwritten, and the second value read
\* back
C31_Witness ==
    /\ Len(calls) = 3
    /\ calls[1].op = "cache_tool_result" /\ calls[1].result = <<"4">>
    /\ calls[2].op = "cache_tool_result" /\ calls[2].result = <<"\"", "5", "\"">>
    /\ calls[1].tool_call_hash = calls[2].tool_call_hash
    /\ calls[3].op = "get_cached_tool_result"
    /\ calls[3].tool_call_hash = calls[1].tool_call_hash
    /\ calls[3].returned = Some(<<"\"", "5", "\"">>)
----------------------------------------------------------------------------
(* The context prompt of the memory, memory.rs:108-131 *)

\* largest include_history_count build_context_prompt is called with
MaxCount == 2

\* AgentMemory::get_recent_history, memory.rs:81-88
get_recent_history(history, count) ==
    SubSeq(history, (IF Len(history) > count THEN Len(history) - count ELSE 0) + 1,
           Len(history))

\* memory.rs:115-117: the lines of the session entries visited in the
\* order o
RECURSIVE SessionLines(_, _, _)
SessionLines(session, o, i) ==
    IF i > Len(o) THEN <<>>
    ELSE <<"-", " ">> \o o[i] \o <<":", " ">> \o session[o[i]] \o <<"\n">>
            \o SessionLines(session, o, i + 1)

\* memory.rs:125-127: the lines of the messages
RECURSIVE MessageLines(_)
MessageLines(messages) ==
    IF messages = <<>> THEN <<>>
    ELSE Head(messages).role \o <<":", " ">> \o Head(messages).content \o <<"\n">>
            \o MessageLines(Tail(messages))

\* AgentMemory::build_context_prompt, memory.rs:108-131: the texts the
\* call may return, one for each order the session entries may be visited
\* in
build_context_prompt(memory, include_history_count) ==
    {(IF DOMAIN memory.session_data # {}
      THEN <<"S", "e", "s", "s", "i", "o", "n", " ", "C", "o", "n", "t", "e", "x", "t", ":", "\n">> \o SessionLines(memory.session_data, o, 1) \o <<"\n">>
      ELSE <<>>)
     \o
     (IF memory.conversation_history # <<>> /\ include_history_count > 0
      THEN <<"R", "e", "c", "e", "n", "t", " ", "C", "o", "n", "v", "e", "r", "s", "a", "t", "i", "o", "n", ":", "\n">>
               \o MessageLines(get_recent_history(memory.conversation_history,
                                                  include_history_count))
               \o <<"\n">>
      ELSE <<>>) :
        o \in HashMap_iter(memory.session_data)}

\* the call of AgentMemory::build_context_prompt on the memory and on a
\* second memory that holds the same session entries and the same history
BuildContextPrompt(include_history_count) ==
    /\ \E returned \in build_context_prompt(Self, include_history_count),
          of_equal \in build_context_prompt(Self, include_history_count) :
         last_call' = [op |-> "build_context_prompt",
                       include_history_count |-> include_history_count,
                       returned |-> returned, of_equal |-> of_equal]
    /\ UNCHANGED <<conversation_history, max_history_size, added, session_data,
                   tool_results_cache, calls, dvars, pvars, avars>>

ContextNext ==
    \/ \E key \in SessionKeys : Store(key, <<"A", "l", "i", "c", "e">>) /\ UNCHANGED calls
    \/ ClearSession /\ UNCHANGED calls
    \/ \E message \in UserMessages : AddToHistory(message) /\ UNCHANGED calls
    \/ ClearHistory /\ UNCHANGED calls
    \/ \E include_history_count \in 0..MaxCount :
          BuildContextPrompt(include_history_count)

SpecContext == DInit /\ [][ContextNext]_vars

\* C32: build_context_prompt is a deterministic function of the memory
\* content: two memories with equal session entries and equal history give
\* the same text; the "Session Context:" section appears if and only if
\* the session is non-empty and the "Recent Conversation:" section if and
\* only if the history is non-empty.
C32_ContextPromptDeterministic ==
    last_call.op = "build_context_prompt" =>
        /\ last_call.returned = last_call.of_equal
        /\ Contains(last_call.returned, <<"S", "e", "s", "s", "i", "o", "n", " ", "C", "o", "n", "t", "e", "x", "t", ":", "\n">>)
              <=> DOMAIN session_data # {}
        /\ Contains(last_call.returned, <<"R", "e", "c", "e", "n", "t", " ", "C", "o", "n", "v", "e", "r", "s", "a", "t", "i", "o", "n", ":", "\n">>)
              <=> conversation_history # <<>>
----------------------------------------------------------------------------
(* Further claims about the dispatcher *)

\* C33: for every action, also one with no args, execute_action sends the
\* tool the envelope {operation: args[0] if there is one else "default",
\* args: args[1..], context: the action's context}, and never aborts while
\* building it.
C33_EnvelopeAlwaysBuilt ==
    /\ pc # "panicked"
    /\ \A i \in 1..Len(fut) :
         fut[i].input.some =>
            fut[i].input.v =
               [operation |-> IF queue[i].args # <<>> THEN queue[i].args[1]
                              ELSE "default",
                args |-> IF Len(queue[i].args) > 1 THEN Tail(queue[i].args)
                         ELSE <<>>,
                context |-> queue[i].context]

\* C34: under the Parallel strategy all actions are launched concurrently:
\* no action's launch waits for another action's tool process to finish,
\* whichever backend that action uses, and execute_plan returns only after
\* all actions have finished.
C34_ParallelLaunchedConcurrently ==
    plan.execution_strategy = "Parallel" =>
        /\ \A i, j \in 1..Len(fut) :
             fut[i].st = "new" =>
                ~(fut[j].st = "wasm_blocked" /\ wproc[j].st = "running")
        /\ pc = "returned_ok" => \A i \in 1..Len(fut) : fut[i].st = "ready"

\* C35: the dispatcher never retries: within one execute_plan each action
\* is executed exactly once and produces exactly one ToolResult, also when
\* the action fails or times out.  Each future holds at most one native
\* and one sandboxed process (nproc, wproc); when the plan has returned
\* every action has run to its end and the results hold one entry for
\* each.
C35_ExecutedOnceOneResult ==
    Returned =>
        /\ \A i \in 1..Len(fut) : fut[i].st = "ready" /\ fut[i].out.some
        /\ Len(results) = Len(queue)

----------------------------------------------------------------------------
(* A dispatch wave and what it leaves alone *)

\* ToolDispatcher::get_stats, dispatcher.rs:464-470
get_stats(keys, timeout) ==
    [total_tools |-> Len(keys), tool_names |-> keys, timeout_seconds |-> timeout]

\* the call of ToolDispatcher::get_stats, dispatcher.rs:464-470, made by
\* the task that calls execute_plan: before a wave or after it
GetStats ==
    /\ pc # "running"
    /\ last_call' = [op |-> "get_stats", returned |-> get_stats(tools, default_timeout)]
    /\ UNCHANGED <<conversation_history, max_history_size, session_data,
                   tool_results_cache, added, calls, dvars, pvars, avars>>

\* the actions of the plans of a wave
WaveChoices ==
    {with_priority(ActionPlan_new(S_math, <<"op">>), 3),
     with_priority(ActionPlan_new(S_calc, <<"op">>), 9)}

WavePlans == PlansOf({"Sequential", "Parallel", "Priority"}, WaveChoices, {1})

WaveNext ==
    \/ \E name \in RegNames : RegisterTool(name)
    \/ SetTimeout(1)
    \/ \E p \in WavePlans : StartPlan(p)
    \/ DRun
    \/ GetStats

SpecWave == DInit /\ [][WaveNext]_vars

\* C36: a dispatch wave is read-only on its inputs: execute_plan under any
\* strategy (the Priority sort included), the execute_action calls it
\* makes and get_stats leave the registered tools, the configured timeout
\* and the plan's action list and its order unchanged.
C36_WaveReadOnly ==
    [][/\ (pc # "idle" \/ pc' # "idle") =>
            /\ tools' = tools
            /\ default_timeout' = default_timeout
       /\ (pc = "idle" /\ pc' # "idle") => plan' = last_call'.plan
       /\ pc # "idle" => plan' = plan
       /\ (last_call'.op = "get_stats" /\ last_call' # last_call) =>
            /\ UNCHANGED <<tools, default_timeout, plan>>
            /\ last_call'.returned.tool_names = tools
            /\ last_call'.returned.timeout_seconds = default_timeout]_vars

\* C36 witness: a Priority plan whose actions were run in another order
\* than the plan lists them has returned, and get_stats was called
C36_Witness ==
    /\ pc = "returned_ok"
    /\ plan.execution_strategy = "Priority"
    /\ Len(results) = 2
    /\ queue # plan.actions
    /\ plan.actions[1].priority = 3
    /\ last_call.op = "get_stats"
    /\ last_call.returned.total_tools = 2

----------------------------------------------------------------------------
(* Further claims about the agent *)

\* C37: after execute_task has run a plan, for every action of the plan
\* whose result is successful the tool cache maps that action's own
\* cache_key to that action's own result text, also when the action named
\* its tool by an alias.
C37_CachedUnderOwnKey ==
    (Executed /\ task.returned.ok) =>
        \A k \in 1..Len(results) :
            results[k].success =>
                HashMap_get(tool_results_cache, cache_key(queue[k]))
                    = Some(results[k].result)

\* C38: in every reachable agent state, every action the parser's
\* validation accepts resolves to a tool registered in the dispatcher, so
\* execute_plan on a parsed plan never fails with "Unknown tool".
C38_ValidatedActionsResolve ==
    task.st # "none" =>
        /\ \A name \in PlannerToolNames \cup Range(tools) :
             validate_action(available_tools, ActionPlan_new(name, <<<<"1">>>>)).ok
                => Resolves(ActionPlan_new(name, <<<<"1">>>>))
        /\ pc # "returned_err"

\* C40: execute_task called before a successful initialize returns an
\* error and changes nothing: session, history and tool cache are as
\* before the call, and no inference, parsing or tool execution takes
\* place.
C40_UninitializedChangesNothing ==
    [][(~model_loaded /\ task.st = "ready" /\ task'.st # "ready") =>
          /\ task'.st = "returned"
          /\ ~task'.returned.ok
          /\ UNCHANGED <<session_data, conversation_history, tool_results_cache>>
          /\ UNCHANGED <<response, parse_out, pc, fut, nproc, wproc, results>>]_vars

\* C40 witness: execute_task has returned its error on an agent that has
\* loaded tools and was never initialized
C40_Witness ==
    /\ ~model_loaded
    /\ task.st = "returned"
    /\ task.after = "start"
    /\ ~task.returned.ok
    /\ Len(tools) = 2
    /\ available_tools # {}

----------------------------------------------------------------------------
(* Termination of a dispatch wave.  The clock never stops, and the thread
   that polls execute_plan polls every future that can be polled; a tool
   process need not ever exit. *)

\* time passes beyond MaxTime while a deadline is still ahead
TickToDeadline ==
    /\ pc = "running"
    /\ now >= MaxTime
    /\ \E i \in Slots : fut[i].st = "native_wait" /\ now < fut[i].deadline
    /\ ThreadFree => \A i \in Slots : ~MayLaunch(i) /\ ~Woken(i)
    /\ now' = now + 1
    /\ UNCHANGED <<tools, default_timeout, plan, pc, queue, fut, nproc, wproc,
                   results, plan_error, pvars, mvars, avars>>

LiveNext ==
    \/ DSetup
    \/ \E p \in WavePlans : default_timeout <= MaxTimeout /\ StartPlan(p)
    \/ DRun
    \/ TickToDeadline

SpecLive ==
    /\ DInit
    /\ [][LiveNext]_vars
    /\ WF_vars(Tick \/ TickToDeadline)
    /\ WF_vars(\E i \in Slots : Launch(i))
    /\ WF_vars(\E i \in Slots : PollNative(i))

\* C39: execute_action always eventually returns: for a registered tool
\* whose process never exits, on either backend, a ToolResult is returned
\* once the deadline has elapsed, so execute_plan terminates for every
\* finite plan under every strategy.
C39_ExecutePlanTerminates == (pc = "running") ~> (pc # "running")

====
